---- MODULE Spec2Model ----
(***************************************************************************)
(* MCP Server Selector: the dynamic environment configuration subsystem    *)
(* (properties parser, validators, loader), the environment switch state   *)
(* machine and the credential sender.                                      *)
(*                                                                         *)
(* Text is a sequence of one-character strings.  The characters are        *)
(*   letters            "L" "D" "P" "x" "y" "z" "q" "c"  (any character    *)
(*                      that is not white space, ':', '#' or a line feed)  *)
(*   ":"  "#"  " "      themselves (" " stands for any white space that    *)
(*                      String.prototype.trim removes)                     *)
(*   "\n"               the line feed                                      *)
(*   "J"                the five-character substring ".json"               *)
(* The default template's words are abbreviated: "L" = Local, "D" = Dev,   *)
(* "P" = Prod, "x" = mcp-local, "y" = mcp-dev, "z" = mcp-prod.             *)
(***************************************************************************)
EXTENDS Integers, Sequences, FiniteSets, TLC

(***************************************************************************)
(* Bounds of the model                                                     *)
(***************************************************************************)
MaxTextLen == 5
MaxSampleLines == 3
MaxInFlight == 2
\* the largest collection that is handed to the status bar functions directly
MaxTotalCount == 4

(***************************************************************************)
(* String primitives of JavaScript used by the parser                      *)
(***************************************************************************)
NL == "\n"
JSON == "J"

RECURSIVE TrimLeft(_)
TrimLeft(s) ==
  IF s = <<>> THEN s
  ELSE IF Head(s) = " " THEN TrimLeft(Tail(s)) ELSE s

RECURSIVE TrimRight(_)
TrimRight(s) ==
  IF s = <<>> THEN s
  ELSE IF s[Len(s)] = " " THEN TrimRight(SubSeq(s, 1, Len(s) - 1)) ELSE s

\* String.prototype.trim
Trim(s) == TrimRight(TrimLeft(s))

\* String.prototype.indexOf(c): 0-based index of the first occurrence, or -1
IndexOf(s, c) ==
  IF \E i \in 1..Len(s) : s[i] = c
    THEN (CHOOSE i \in 1..Len(s) : s[i] = c /\ \A j \in 1..(i - 1) : s[j] # c) - 1
    ELSE -1

\* String.prototype.substring(from, to) with 0-based, end-exclusive indices
Substring(s, from, to) == SubSeq(s, from + 1, to)

\* String.prototype.split('\n'): the empty text splits into one empty line
RECURSIVE Split(_)
Split(s) ==
  LET i == IndexOf(s, NL) IN
  IF i = -1 THEN <<s>>
  ELSE <<Substring(s, 0, i)>> \o Split(Substring(s, i + 1, Len(s)))

\* String.prototype.endsWith('.json')
EndsWithJson(s) == s # <<>> /\ s[Len(s)] = JSON

\* String.prototype.startsWith('#')
StartsWithHash(s) == s # <<>> /\ Head(s) = "#"

\* Array.prototype.map(line => line.trim())
RECURSIVE MapTrim(_)
MapTrim(ls) == IF ls = <<>> THEN <<>> ELSE <<Trim(Head(ls))>> \o MapTrim(Tail(ls))

\* the inverse of Split: the lines joined by line feeds
RECURSIVE Join(_)
Join(ls) ==
  IF ls = <<>> THEN <<>>
  ELSE IF Len(ls) = 1 THEN Head(ls)
  ELSE Head(ls) \o <<NL>> \o Join(Tail(ls))

(***************************************************************************)
(* environmentParser.ts                                                    *)
(***************************************************************************)
\* DEFAULT_ENVIRONMENTS_CONTENT: three comment lines, then Local, Dev, Prod
DEFAULT_ENVIRONMENTS_CONTENT ==
  Join(<< <<"#", "c">>, <<"#", "c">>, <<"#", "c">>,
          <<"L", ":", "x">>, <<"D", ":", "y">>, <<"P", ":", "z">> >>)

\* .split('\n').map(line => line.trim()).filter(line => line && !line.startsWith('#'))
CandidateLines(content) ==
  SelectSeq(MapTrim(Split(content)), LAMBDA l : l # <<>> /\ ~StartsWithHash(l))

\* the normalisation without the endsWith test
NormalizeAlwaysAppend(base) == Append(base, JSON)

\* baseConfigFileName.endsWith('.json') ? baseConfigFileName : baseConfigFileName + '.json'
NormalizeConfigFile(base) == IF EndsWithJson(base) THEN base ELSE Append(base, JSON)

\* the position given to the descriptor built from candidate line number index
\* (0-based) when acceptedSoFar descriptors were pushed before it
PositionOf(index, acceptedSoFar) == index

\* the body of lines.forEach((line, index) => ...) from candidate line index on
RECURSIVE ParseLines(_, _, _)
ParseLines(lines, index, environments) ==
  IF index >= Len(lines) THEN environments
  ELSE
    LET line == lines[index + 1]
        colonIndex == IndexOf(line, ":")
    IN
    IF colonIndex = -1 THEN ParseLines(lines, index + 1, environments)
    ELSE
      LET displayName == Trim(Substring(line, 0, colonIndex))
          baseConfigFileName == Trim(Substring(line, colonIndex + 1, Len(line)))
          configFileName == NormalizeConfigFile(baseConfigFileName)
      IN
      IF displayName # <<>> /\ baseConfigFileName # <<>>
        THEN ParseLines(lines, index + 1,
               Append(environments,
                 [displayName |-> displayName,
                  configFileName |-> configFileName,
                  position |-> PositionOf(index, Len(environments))]))
        ELSE ParseLines(lines, index + 1, environments)

parseEnvironmentProps(propsContent) ==
  LET environments == ParseLines(CandidateLines(propsContent), 0, <<>>)
  IN [environments |-> environments, totalCount |-> Len(environments)]

\* displayName.length > 50
LONG_NAME_LENGTH == 50

\* !/^[a-zA-Z0-9._-]+\.json$/.test(configFile): ".json" itself is made of
\* characters of the class, so "J" may also occur before the final suffix
UsualChars == {"L", "D", "P", "x", "y", "z", "q", "c", JSON}
HasUnusualCharacters(configFile) ==
  ~(/\ Len(configFile) >= 2
    /\ configFile[Len(configFile)] = JSON
    /\ \A i \in 1..(Len(configFile) - 1) : configFile[i] \in UsualChars)

\* the body of lines.forEach((line, index) => ...) of validateEnvironmentProps
\* from candidate line index on; acc carries errors, warnings and the two Sets
RECURSIVE ValidateLines(_, _, _)
ValidateLines(lines, index, acc) ==
  IF index >= Len(lines) THEN acc
  ELSE
    LET line == lines[index + 1]
        lineNumber == index + 1
        colonIndex == IndexOf(line, ":")
    IN
    IF colonIndex = -1
      THEN ValidateLines(lines, index + 1,
             [acc EXCEPT !.errors =
                Append(@, [line |-> lineNumber, kind |-> "InvalidFormat"])])
      ELSE
        LET displayName == Trim(Substring(line, 0, colonIndex))
            baseConfigFile == Trim(Substring(line, colonIndex + 1, Len(line)))
            configFile == NormalizeConfigFile(baseConfigFile)
            nameErrors ==
              IF displayName = <<>>
                THEN << [line |-> lineNumber, kind |-> "EmptyDisplayName"] >>
              ELSE IF displayName \in acc.displayNames
                THEN << [line |-> lineNumber, kind |-> "DuplicateDisplayName"] >>
              ELSE <<>>
            fileErrors ==
              IF baseConfigFile = <<>>
                THEN << [line |-> lineNumber, kind |-> "EmptyConfigFile"] >>
              ELSE IF configFile \in acc.configFiles
                THEN << [line |-> lineNumber, kind |-> "DuplicateConfigFile"] >>
              ELSE <<>>
            nameWarnings ==
              IF displayName # <<>> /\ Len(displayName) > LONG_NAME_LENGTH
                THEN << [line |-> lineNumber, kind |-> "LongDisplayName"] >>
                ELSE <<>>
            fileWarnings ==
              IF configFile # <<>> /\ HasUnusualCharacters(configFile)
                THEN << [line |-> lineNumber, kind |-> "UnusualCharacters"] >>
                ELSE <<>>
        IN
        ValidateLines(lines, index + 1,
          [errors |-> acc.errors \o nameErrors \o fileErrors,
           warnings |-> acc.warnings \o nameWarnings \o fileWarnings,
           displayNames |-> IF nameErrors = <<>>
                              THEN acc.displayNames \cup {displayName}
                              ELSE acc.displayNames,
           configFiles |-> IF fileErrors = <<>>
                             THEN acc.configFiles \cup {configFile}
                             ELSE acc.configFiles])

NoEnvironmentsDefined == [line |-> 0, kind |-> "NoEnvironmentsDefined"]

\* a validator of texts for which a warning is as bad as an error
validateEnvironmentPropsStrict(content) ==
  LET lines == CandidateLines(content) IN
  IF Len(lines) = 0
    THEN [isValid |-> FALSE, errors |-> <<NoEnvironmentsDefined>>, warnings |-> <<>>]
    ELSE
      LET acc == ValidateLines(lines, 0,
                   [errors |-> <<>>, warnings |-> <<>>,
                    displayNames |-> {}, configFiles |-> {}])
      IN [isValid |-> Len(acc.errors) = 0 /\ Len(acc.warnings) = 0,
          errors |-> acc.errors,
          warnings |-> acc.warnings]

\* validateEnvironmentProps without the check of lines.length
validateEnvironmentPropsNoEmptyCheck(content) ==
  LET acc == ValidateLines(CandidateLines(content), 0,
               [errors |-> <<>>, warnings |-> <<>>,
                displayNames |-> {}, configFiles |-> {}])
  IN [isValid |-> Len(acc.errors) = 0,
      errors |-> acc.errors,
      warnings |-> acc.warnings]

\* a validator of texts that reports nothing
validateEnvironmentPropsLenient(content) ==
  [isValid |-> TRUE, errors |-> <<>>, warnings |-> <<>>]

validateEnvironmentProps(content) ==
  LET lines == CandidateLines(content) IN
  IF Len(lines) = 0
    THEN [isValid |-> FALSE, errors |-> <<NoEnvironmentsDefined>>, warnings |-> <<>>]
    ELSE
      LET acc == ValidateLines(lines, 0,
                   [errors |-> <<>>, warnings |-> <<>>,
                    displayNames |-> {}, configFiles |-> {}])
      IN [isValid |-> Len(acc.errors) = 0,
          errors |-> acc.errors,
          warnings |-> acc.warnings]

\* the body of config.forEach((env, index) => ...) of validateEnvironmentConfig;
\* existing is the set of file names present in the envs directory
RECURSIVE ValidateConfigEntries(_, _, _, _)
ValidateConfigEntries(config, index, acc, existing) ==
  IF index >= Len(config) THEN acc
  ELSE
    LET env == config[index + 1]
        nameErrors ==
          IF env.displayName \in acc.displayNames
            THEN << [line |-> index, kind |-> "DuplicateDisplayName"] >> ELSE <<>>
        fileErrors ==
          IF env.configFileName \in acc.configFiles
            THEN << [line |-> index, kind |-> "DuplicateConfigFile"] >> ELSE <<>>
        fileWarnings ==
          IF env.configFileName \notin existing
            THEN << [line |-> index, kind |-> "ConfigFileNotFound"] >> ELSE <<>>
    IN
    ValidateConfigEntries(config, index + 1,
      [errors |-> acc.errors \o nameErrors \o fileErrors,
       warnings |-> acc.warnings \o fileWarnings,
       displayNames |-> acc.displayNames \cup {env.displayName},
       configFiles |-> acc.configFiles \cup {env.configFileName}],
      existing)

\* a validator of descriptors that reports nothing
validateEnvironmentConfigLenient(config, existing) ==
  [isValid |-> TRUE, errors |-> <<>>, warnings |-> <<>>]

validateEnvironmentConfig(config, existing) ==
  IF Len(config) = 0
    THEN [isValid |-> FALSE, errors |-> <<NoEnvironmentsDefined>>, warnings |-> <<>>]
    ELSE
      LET acc == ValidateConfigEntries(config, 0,
                   [errors |-> <<>>, warnings |-> <<>>,
                    displayNames |-> {}, configFiles |-> {}], existing)
      IN [isValid |-> Len(acc.errors) = 0,
          errors |-> acc.errors,
          warnings |-> acc.warnings]

(***************************************************************************)
(* The properties file on disk: absent, or present with a text that the    *)
(* process may or may not be permitted to read.                            *)
(***************************************************************************)
NoFile == [exists |-> FALSE, readable |-> FALSE, text |-> <<>>]
FileWith(text) == [exists |-> TRUE, readable |-> TRUE, text |-> text]

\* createDefaultEnvironmentProps: fs.writeFileSync(propsPath, DEFAULT_ENVIRONMENTS_CONTENT)
createDefaultEnvironmentProps == FileWith(DEFAULT_ENVIRONMENTS_CONTENT)

\* createDefaultEnvironmentPropsIfNeeded
createDefaultEnvironmentPropsIfNeeded(file) ==
  IF ~file.exists THEN createDefaultEnvironmentProps ELSE file

\* a load that does not create the properties file
PropsLeftAsFound(file) == file

\* the properties file as loadEnvironmentConfiguration leaves it
PropsAfterLoad(file) == IF ~file.exists THEN createDefaultEnvironmentProps ELSE file

\* what loadEnvironmentConfiguration does with the text it read, given the
\* result of validateEnvironmentProps on it
LoadedFrom(content, validation) == parseEnvironmentProps(content)

\* loadEnvironmentConfiguration: its returned collection; fs.readFileSync throws
\* on a file the process may not read, and the catch returns the default parse
loadEnvironmentConfiguration(file) ==
  LET onDisk == PropsAfterLoad(file) IN
  IF ~onDisk.readable
    THEN parseEnvironmentProps(DEFAULT_ENVIRONMENTS_CONTENT)
    ELSE LoadedFrom(onDisk.text, validateEnvironmentProps(onDisk.text))

(***************************************************************************)
(* configManager.ts and statusBar.ts: lookups in a loaded collection       *)
(***************************************************************************)
\* environments.map(e => e.displayName)
RECURSIVE DisplayNames(_)
DisplayNames(environments) ==
  IF environments = <<>> THEN <<>>
  ELSE <<Head(environments).displayName>> \o DisplayNames(Tail(environments))

NameSet(collection) ==
  {collection.environments[i].displayName : i \in 1..Len(collection.environments)}

\* environments.findIndex(e => e.displayName === displayName): 0-based, or -1
FindIndex(environments, displayName) ==
  IF \E i \in 1..Len(environments) : environments[i].displayName = displayName
    THEN (CHOOSE i \in 1..Len(environments) :
            /\ environments[i].displayName = displayName
            /\ \A j \in 1..(i - 1) : environments[j].displayName # displayName) - 1
    ELSE -1

\* String.prototype.replace('.json', ''): removes the first occurrence only
ReplaceFirstJson(s) ==
  LET i == IndexOf(s, JSON) IN
  IF i = -1 THEN s ELSE Substring(s, 0, i) \o Substring(s, i + 1, Len(s))

\* getConfigFileBase: found is FALSE for the result undefined
getConfigFileBase(collection, displayName) ==
  LET i == FindIndex(collection.environments, displayName) IN
  IF i = -1 THEN [found |-> FALSE, base |-> <<>>]
  ELSE [found |-> TRUE,
        base |-> ReplaceFirstJson(collection.environments[i + 1].configFileName)]

\* getConfigFilePath: throws 'Unknown environment' when !fileBase (undefined or '')
getConfigFilePath(collection, displayName) ==
  LET fileBase == getConfigFileBase(collection, displayName) IN
  IF ~fileBase.found \/ fileBase.base = <<>>
    THEN [throws |-> TRUE, file |-> <<>>]
    ELSE [throws |-> FALSE, file |-> Append(fileBase.base, JSON)]

\* getIdpUrlFilePath: the companion file is named by the file base
getIdpUrlFilePath(collection, displayName) ==
  LET fileBase == getConfigFileBase(collection, displayName) IN
  IF ~fileBase.found \/ fileBase.base = <<>>
    THEN [throws |-> TRUE, file |-> <<>>]
    ELSE [throws |-> FALSE, file |-> fileBase.base]

\* getDefaultEnvironment: envConfig.environments[0]?.displayName || 'Local'
getDefaultEnvironment(collection) ==
  IF Len(collection.environments) > 0
    THEN collection.environments[1].displayName
    ELSE <<"L">>

\* getEnvironmentColor without the orange tier
getEnvironmentColorTwoTier(collection, displayName) ==
  LET i == FindIndex(collection.environments, displayName) IN
  IF i = -1 THEN "#4caf50"
  ELSE IF collection.environments[i + 1].position = 0 THEN "#4caf50"
  ELSE "#f44336"

\* getEnvironmentColor, given the collection that its own load returns
getEnvironmentColor(collection, displayName) ==
  LET i == FindIndex(collection.environments, displayName) IN
  IF i = -1 THEN "#4caf50"
  ELSE LET position == collection.environments[i + 1].position
           totalCount == collection.totalCount
       IN IF totalCount = 1 THEN "#4caf50"
          ELSE IF position = 0 THEN "#4caf50"
          ELSE IF position = totalCount - 1 THEN "#f44336"
          ELSE "#ff9800"

\* getEnvironmentIcon without the default for a name that is not found: the
\* name is styled as the last entry
getEnvironmentIconNoDefault(collection, displayName) ==
  LET i == FindIndex(collection.environments, displayName)
      totalCount == collection.totalCount
      position == IF i = -1 THEN totalCount - 1
                  ELSE collection.environments[i + 1].position
  IN IF totalCount = 1 THEN "$(desktop-download)"
     ELSE IF position = 0 THEN "$(desktop-download)"
     ELSE IF position = totalCount - 1 THEN "$(rocket)"
     ELSE "$(beaker)"

\* getEnvironmentIcon, given the collection that its own load returns
getEnvironmentIcon(collection, displayName) ==
  LET i == FindIndex(collection.environments, displayName) IN
  IF i = -1 THEN "$(desktop-download)"
  ELSE LET position == collection.environments[i + 1].position
           totalCount == collection.totalCount
       IN IF totalCount = 1 THEN "$(desktop-download)"
          ELSE IF position = 0 THEN "$(desktop-download)"
          ELSE IF position = totalCount - 1 THEN "$(rocket)"
          ELSE "$(beaker)"

(***************************************************************************)
(* Files.  A per-environment configuration file is "absent" or holds the   *)
(* default template ("default", DEFAULT_MCP_CONTENT), a user's content     *)
(* without the placeholder ("plain") or with it ("template"); a user's     *)
(* content is particular to its file.  The active configuration file       *)
(* (~/.cursor/mcp.json) records the content it holds: its kind, the file   *)
(* it was copied from (none for the default template, whose bytes are the  *)
(* same in every file) and the UUID that replaced the placeholder (0: the  *)
(* placeholder is still there).                                            *)
(***************************************************************************)
FileKind(files, f) == IF f \in DOMAIN files THEN files[f] ELSE "absent"

AbsentMcp == [body |-> "absent", from |-> <<>>, uuid |-> 0]

ContentOf(files, f) ==
  [body |-> FileKind(files, f),
   from |-> IF FileKind(files, f) \in {"plain", "template"} THEN f ELSE <<>>,
   uuid |-> 0]

AbsentUrl == [exists |-> FALSE, from |-> <<>>]

\* ensureConfigFile for every environment of the collection (ensureAllConfigFiles):
\* DEFAULT_MCP_CONTENT is written only where no file exists
\* a variant of ensureAllConfigFiles that writes the default template whether
\* the file exists or not
ensureAllConfigFilesOverwrite(collection, files) ==
  [f \in DOMAIN files |->
     IF \E i \in 1..Len(collection.environments) :
          LET path == getConfigFilePath(collection,
                        collection.environments[i].displayName)
          IN ~path.throws /\ path.file = f
       THEN "default"
       ELSE files[f]]

ensureAllConfigFiles(collection, files) ==
  [f \in DOMAIN files |->
     IF /\ files[f] = "absent"
        /\ \E i \in 1..Len(collection.environments) :
             LET path == getConfigFilePath(collection,
                           collection.environments[i].displayName)
             IN ~path.throws /\ path.file = f
       THEN "default"
       ELSE files[f]]

\* getCurrentEnvironment: workspaceState.get('mcpCurrentEnv') || defaultEnv
getCurrentEnvironment(collection, stored) ==
  IF stored # <<>> THEN stored
  ELSE IF Len(collection.environments) > 0
    THEN collection.environments[1].displayName
    ELSE <<"L">>

\* generateUUID (crypto.randomUUID): a UUID that differs from every UUID in use;
\* UUIDs are numbered from 1, and only their equality matters
generateUUID(used) == CHOOSE n \in 1..(Cardinality(used) + 1) : n \notin used

\* The bytes of a configuration file, as far as the placeholder goes: a
\* sequence of pieces, PLACEHOLDER for an occurrence of 'access_token_template',
\* a positive number for a UUID, a negative number for any other text.
PLACEHOLDER == 0
FileContent(kind) ==
  CASE kind = "template" -> <<-1, PLACEHOLDER, -2, PLACEHOLDER, -3>>
    [] kind = "plain" -> <<-1, -2, -3>>
    [] kind = "default" -> <<-1>>
    [] OTHER -> <<>>

\* sourceContent.includes('access_token_template')
IncludesPlaceholder(content) == \E i \in 1..Len(content) : content[i] = PLACEHOLDER

\* sourceContent.replace('access_token_template', newUuid): the first occurrence only
ReplaceFirst(content, newUuid) ==
  [i \in 1..Len(content) |->
     IF content[i] = PLACEHOLDER /\ (\A j \in 1..(i - 1) : content[j] # PLACEHOLDER)
       THEN newUuid ELSE content[i]]

\* sourceContent.replace(/access_token_template/g, newUuid)
UpdatedContent(content, newUuid) ==
  [i \in 1..Len(content) |-> IF content[i] = PLACEHOLDER THEN newUuid ELSE content[i]]

\* no fs.writeFileSync
NothingWritten == <<>>

\* replaceTokenTemplateFromSource: the active file is written only when the
\* source of the current environment holds the placeholder; used is the set
\* of UUIDs in use, to which the new one is added; written is the content
\* given to fs.writeFileSync
replaceTokenTemplateFromSource(collection, files, mcp, stored, used) ==
  LET currentEnv == getCurrentEnvironment(collection, stored)
      source == getConfigFilePath(collection, currentEnv)
      unchanged == [success |-> FALSE, uuid |-> 0, mcp |-> mcp, used |-> used,
                    written |-> NothingWritten]
      newUuid == generateUUID(used)
  IN
  IF source.throws THEN unchanged
  ELSE IF FileKind(files, source.file) = "absent" THEN unchanged
  ELSE IF ~IncludesPlaceholder(FileContent(FileKind(files, source.file)))
    THEN [unchanged EXCEPT !.success = TRUE]
  ELSE [success |-> TRUE,
        uuid |-> newUuid,
        mcp |-> [body |-> "template", from |-> source.file, uuid |-> newUuid],
        used |-> used \cup {newUuid},
        written |-> UpdatedContent(FileContent(FileKind(files, source.file)),
                                   newUuid)]

\* a variant that reports the copy without writing the active file
copyConfigToCursorNoWrite(collection, files, mcp, displayName) ==
  LET source == getConfigFilePath(collection, displayName) IN
  IF source.throws THEN [throws |-> TRUE, ok |-> FALSE, mcp |-> mcp]
  ELSE IF FileKind(files, source.file) = "absent"
    THEN [throws |-> FALSE, ok |-> FALSE, mcp |-> mcp]
  ELSE [throws |-> FALSE, ok |-> TRUE, mcp |-> mcp]

\* a variant that takes a missing source for a copied one
copyConfigToCursorMissingOk(collection, files, mcp, displayName) ==
  LET source == getConfigFilePath(collection, displayName) IN
  IF source.throws THEN [throws |-> TRUE, ok |-> FALSE, mcp |-> mcp]
  ELSE IF FileKind(files, source.file) = "absent"
    THEN [throws |-> FALSE, ok |-> TRUE, mcp |-> mcp]
  ELSE [throws |-> FALSE, ok |-> TRUE, mcp |-> ContentOf(files, source.file)]

\* copyConfigToCursor: getConfigFilePath may throw; a missing source gives false
copyConfigToCursor(collection, files, mcp, displayName) ==
  LET source == getConfigFilePath(collection, displayName) IN
  IF source.throws THEN [throws |-> TRUE, ok |-> FALSE, mcp |-> mcp]
  ELSE IF FileKind(files, source.file) = "absent"
    THEN [throws |-> FALSE, ok |-> FALSE, mcp |-> mcp]
  ELSE [throws |-> FALSE, ok |-> TRUE, mcp |-> ContentOf(files, source.file)]

\* the value copyIdpUrlToCursor returns when the companion file does not exist
MissingIdpUrlResult == TRUE

\* copyIdpUrlToCursor: urls is the set of file bases whose companion
\* <base>-idp-url.txt exists; copyFails tells whether mkdirSync or copyFileSync
\* throws (the catch returns false); copied tells whether a copy was made
copyIdpUrlToCursor(collection, urls, idp, displayName, copyFails) ==
  LET source == getIdpUrlFilePath(collection, displayName) IN
  IF source.throws THEN [throws |-> TRUE, ok |-> FALSE, copied |-> FALSE, idp |-> idp]
  ELSE IF source.file \notin urls
    THEN [throws |-> FALSE, ok |-> MissingIdpUrlResult, copied |-> FALSE, idp |-> idp]
  ELSE IF copyFails
    THEN [throws |-> FALSE, ok |-> FALSE, copied |-> FALSE, idp |-> idp]
  ELSE [throws |-> FALSE, ok |-> TRUE, copied |-> TRUE,
        idp |-> [exists |-> TRUE, from |-> source.file]]

\* the order of the steps of switchToEnvironment up to its await
SwitchSteps(success, send) ==
  <<"copyConfig", "copyIdpUrl", "persist">>
    \o (IF success THEN <<"replaceToken">> ELSE <<>>)
    \o (IF send THEN <<"sendCredentials">> ELSE <<>>)

\* a variant whose result also requires the companion copy to have returned true
switchToEnvironmentStrict(collection, files, urls, mcp, idp, stored, used, displayName, copyFails) ==
  LET configCopied == copyConfigToCursor(collection, files, mcp, displayName)
      idpUrlCopied == copyIdpUrlToCursor(collection, urls, idp, displayName,
                                         copyFails)
      success == configCopied.ok /\ idpUrlCopied.ok
      token == IF success
                 THEN replaceTokenTemplateFromSource(collection, files,
                        configCopied.mcp, displayName, used)
                 ELSE [success |-> FALSE, uuid |-> 0,
                       mcp |-> configCopied.mcp, used |-> used]
      send == success /\ idpUrlCopied.ok
  IN
  IF configCopied.throws \/ idpUrlCopied.throws
    THEN [throws |-> TRUE, success |-> FALSE, send |-> FALSE,
          mcp |-> mcp, idp |-> idp, stored |-> stored, used |-> used,
          idpUrlCopied |-> FALSE,
          steps |-> <<"copyConfig">>]
    ELSE [throws |-> FALSE, success |-> success, send |-> send,
          mcp |-> token.mcp, idp |-> idpUrlCopied.idp, stored |-> displayName,
          used |-> token.used,
          idpUrlCopied |-> idpUrlCopied.ok,
          steps |-> SwitchSteps(success, send)]

\* switchToEnvironment up to 'await sendCredentials(context)': the files and
\* the workspace state it leaves, its result and whether it calls sendCredentials
switchToEnvironment(collection, files, urls, mcp, idp, stored, used, displayName, copyFails) ==
  LET configCopied == copyConfigToCursor(collection, files, mcp, displayName)
      idpUrlCopied == copyIdpUrlToCursor(collection, urls, idp, displayName,
                                         copyFails)
      success == configCopied.ok
      token == IF success
                 THEN replaceTokenTemplateFromSource(collection, files,
                        configCopied.mcp, displayName, used)
                 ELSE [success |-> FALSE, uuid |-> 0,
                       mcp |-> configCopied.mcp, used |-> used]
      send == success /\ idpUrlCopied.ok
  IN
  IF configCopied.throws \/ idpUrlCopied.throws
    THEN [throws |-> TRUE, success |-> FALSE, send |-> FALSE,
          mcp |-> mcp, idp |-> idp, stored |-> stored, used |-> used,
          idpUrlCopied |-> FALSE,
          steps |-> <<"copyConfig">>]
    ELSE [throws |-> FALSE, success |-> success, send |-> send,
          mcp |-> token.mcp, idp |-> idpUrlCopied.idp, stored |-> displayName,
          used |-> token.used,
          idpUrlCopied |-> idpUrlCopied.ok,
          steps |-> SwitchSteps(success, send)]

\* sendCredentials without the existence check of the endpoint-URL file
sendCredentialsBeginNoCheck(collection, files, mcp, idp, stored, used) ==
  LET tokenResult == replaceTokenTemplateFromSource(collection, files, mcp,
                                                    stored, used)
  IN [mcp |-> tokenResult.mcp,
      used |-> tokenResult.used,
      uuid |-> tokenResult.uuid,
      pending |-> TRUE]

\* sendCredentials up to 'await readMcpIdpUrl()': the token replacement, then
\* the existence check of the active endpoint-URL file; pending tells whether
\* the asynchronous read of that file was started
sendCredentialsBegin(collection, files, mcp, idp, stored, used) ==
  LET tokenResult == replaceTokenTemplateFromSource(collection, files, mcp,
                                                    stored, used)
  IN [mcp |-> tokenResult.mcp,
      used |-> tokenResult.used,
      uuid |-> tokenResult.uuid,
      pending |-> idp.exists]

(***************************************************************************)
(* credentialsSender.ts: the interval timer and the outcome of a send      *)
(***************************************************************************)
\* the value of credentialsSenderInterval when it is undefined
NoInterval == 0

\* setInterval: a handle that differs from every live interval
setInterval(live) == CHOOSE t \in 1..(Cardinality(live) + 1) : t \notin live

\* stopCredentialsSender without clearInterval
stopCredentialsSenderNoClear(handle, live) ==
  [handle |-> NoInterval, live |-> live]
\* startCredentialsSender without the guard on the handle
startCredentialsSenderNoGuard(handle, live, urlExists) ==
  IF ~urlExists
    THEN [handle |-> handle, live |-> live, immediate |-> FALSE]
  ELSE [handle |-> setInterval(live),
        live |-> live \cup {setInterval(live)},
        immediate |-> TRUE]
\* startCredentialsSender: handle is credentialsSenderInterval, live the set of
\* the live intervals of the runtime, urlExists the result of
\* requiredFilesExist(); immediate tells whether sendCredentials is called
startCredentialsSender(handle, live, urlExists) ==
  IF handle # NoInterval
    THEN [handle |-> handle, live |-> live, immediate |-> FALSE]
  ELSE IF ~urlExists
    THEN [handle |-> handle, live |-> live, immediate |-> FALSE]
  ELSE [handle |-> setInterval(live),
        live |-> live \cup {setInterval(live)},
        immediate |-> TRUE]

\* stopCredentialsSender: clearInterval and the handle set to undefined
stopCredentialsSender(handle, live) ==
  IF handle # NoInterval
    THEN [handle |-> NoInterval, live |-> live \ {handle}]
    ELSE [handle |-> handle, live |-> live]

\* what reading the active endpoint-URL file gives
ReadResults == {"url", "empty", "error"}

\* readMcpIdpUrl: rejects when the file is missing, unreadable or empty
readMcpIdpUrl(exists, read) ==
  IF ~exists THEN [rejects |-> TRUE]
  ELSE [rejects |-> read # "url"]

\* how the request of sendCredentialsToMcpServer ends
RequestOutcomes == {"2xx", "status", "error", "timeout"}

\* sendCredentialsToMcpServer: resolves on a 2xx status only
sendCredentialsToMcpServer(outcome) == [rejects |-> outcome # "2xx"]

\* sendCredentials without its catch
sendCredentialsRethrows(rejectedInside) == rejectedInside
\* the try/catch of sendCredentials: whether a rejection inside it reaches
\* the caller of sendCredentials
sendCredentialsRejects(rejectedInside) == FALSE

(***************************************************************************)
(* State                                                                   *)
(***************************************************************************)
VARIABLES
  propsFile,      \* ~/.cursor/mcp-selector/mcp-environments.props
  call,           \* the last direct call of an exported function and its result
  envFiles,       \* ~/.cursor/mcp-selector/envs/<file>: the configuration files
  idpUrlFiles,    \* the file bases whose envs/<base>-idp-url.txt exists
  cursorMcp,      \* ~/.cursor/mcp.json, the active configuration file
  cursorIdpUrl,   \* ~/.cursor/mcp-selector/mcp-idp-url.txt, the active endpoint URL
  mcpCurrentEnv,  \* workspaceState 'mcpCurrentEnv' (<<>>: not set)
  phase,          \* "inactive", "active", "failed" or "deactivated"
  statusBarItem,  \* what the status bar shows
  changePending,  \* a 'change' event of fs.watch waits for its callback
  quickPick,      \* the names offered by an open quick pick (<<>>: none open)
  sends,          \* the sendCredentials calls that wait for the file read or the POST
  credentialsSenderInterval,  \* the handle kept by credentialsSender.ts
  last,           \* what the handler that led to this state saw and did, when it
                  \* was a switch transition (kind "none" after any other handler)
  applied,        \* the most recent switchToEnvironment call returned true and
                  \* the properties file has not been edited since
  intervals,      \* the live intervals of the runtime (set, not cleared)
  senderLast      \* what the credentialsSender operation that led to this state
                  \* did (op "none" after any other handler); hadTimer of a
                  \* start or stop: an interval was live when it was called;
                  \* hadTimer of a tick: the interval that fired is the one
                  \* credentialsSenderInterval holds

parserVars == <<propsFile, call>>
sysVars == <<envFiles, idpUrlFiles, cursorMcp, cursorIdpUrl, mcpCurrentEnv, phase,
             statusBarItem, changePending, quickPick, sends,
             credentialsSenderInterval, last, applied, intervals,
          senderLast>>
vars == <<propsFile, call, envFiles, idpUrlFiles, cursorMcp, cursorIdpUrl,
          mcpCurrentEnv, phase, statusBarItem, changePending, quickPick, sends,
          credentialsSenderInterval, last, applied, intervals,
          senderLast>>

NoSenderEvent ==
  [op |-> "none", hadTimer |-> FALSE, started |-> FALSE, immediate |-> FALSE,
   failed |-> FALSE, rejected |-> FALSE]

NoStatusBar == [env |-> <<>>, icon |-> "", color |-> ""]
NoTransition ==
  [kind |-> "none", accepted |-> FALSE, aborted |-> FALSE, target |-> <<>>,
   names |-> <<>>, prevEnv |-> <<>>, newEnv |-> <<>>,
   fileExisted |-> FALSE, companion |-> FALSE, copied |-> FALSE,
   idpUrlCopied |-> FALSE,
   success |-> FALSE, send |-> FALSE, steps |-> <<>>]

\* the UUIDs in use: the one in the active file (the payload of a POST is not
\* part of the state)
LiveUuids == {cursorMcp.uuid} \ {0}

EnvFileNames == {<<"x", JSON>>, <<"y", JSON>>, <<"z", JSON>>}

\* the system before activation, as the direct calls of the parser leave it
SysIdle ==
  /\ envFiles = [f \in EnvFileNames |-> "absent"]
  /\ idpUrlFiles = {}
  /\ cursorMcp = AbsentMcp
  /\ cursorIdpUrl = AbsentUrl
  /\ mcpCurrentEnv = <<>>
  /\ phase = "inactive"
  /\ statusBarItem = NoStatusBar
  /\ changePending = FALSE
  /\ quickPick = <<>>
  /\ sends = <<>>
  /\ credentialsSenderInterval = NoInterval
  /\ intervals = {}
  /\ senderLast = NoSenderEvent
  /\ last = NoTransition
  /\ applied = FALSE

(***************************************************************************)
(* Input texts of the direct calls: every text of at most MaxTextLen       *)
(* characters, and every text of at most MaxSampleLines sample lines.      *)
(***************************************************************************)
TextChars == {"L", "D", ":", "#", " ", JSON, NL}

RECURSIVE TextsOfLen(_)
TextsOfLen(n) ==
  IF n = 0 THEN {<<>>}
  ELSE {Append(t, ch) : t \in TextsOfLen(n - 1), ch \in TextChars}

ShortTexts == UNION {TextsOfLen(n) : n \in 0..MaxTextLen}

\* a display name of more than LONG_NAME_LENGTH characters
LongName == [k \in 1..(LONG_NAME_LENGTH + 1) |-> "D"]

SampleLines ==
  { <<"L", ":", "x">>, <<"D", ":", "y">>, <<"P", ":", "z">>,
    <<"L", ":", "y">>, <<"D", ":", "x", JSON>>,
    <<"q">>, <<":", "x">>, <<"L", ":">>, <<"#", "c">>, <<>>,
    LongName \o <<":", "q">>,
    <<" ", "P", " ", ":", " ", "z", " ">> }

RECURSIVE LineSeqs(_)
LineSeqs(n) ==
  IF n = 0 THEN {<<>>}
  ELSE {Append(ls, l) : ls \in LineSeqs(n - 1), l \in SampleLines}

SampleTexts == {Join(ls) : ls \in UNION {LineSeqs(n) : n \in 1..MaxSampleLines}}

InputTexts == ShortTexts \cup SampleTexts

\* the existence of the files that validateEnvironmentConfig looks for
ExistingChoices(config) ==
  { {}, {config[i].configFileName : i \in 1..Len(config)} }

(***************************************************************************)
(* Direct calls of the exported functions of environmentParser.ts          *)
(***************************************************************************)
NoCall == [fn |-> "none"]

InitParser ==
  /\ propsFile \in {NoFile, [exists |-> TRUE, readable |-> FALSE, text |-> <<>>]}
                     \cup {FileWith(t) : t \in InputTexts}
  /\ call = NoCall
  /\ SysIdle

CallParse ==
  /\ propsFile.exists /\ propsFile.readable
  /\ call' = [fn |-> "parseEnvironmentProps",
              input |-> propsFile.text,
              out |-> parseEnvironmentProps(propsFile.text)]
  /\ UNCHANGED propsFile
  /\ UNCHANGED sysVars

CallValidateProps ==
  /\ propsFile.exists /\ propsFile.readable
  /\ call' = [fn |-> "validateEnvironmentProps",
              input |-> propsFile.text,
              out |-> validateEnvironmentProps(propsFile.text)]
  /\ UNCHANGED propsFile
  /\ UNCHANGED sysVars

CallValidateConfig ==
  /\ propsFile.exists /\ propsFile.readable
  /\ LET config == parseEnvironmentProps(propsFile.text).environments IN
     \E existing \in ExistingChoices(config) :
       call' = [fn |-> "validateEnvironmentConfig",
                input |-> config,
                existing |-> existing,
                out |-> validateEnvironmentConfig(config, existing)]
  /\ UNCHANGED propsFile
  /\ UNCHANGED sysVars

\* what a call of the loader keeps of the call before it: again tells whether
\* that call was a call of the loader too, file is the properties file as
\* that call left it and out the collection it returned
PreviousLoad ==
  IF call.fn = "loadEnvironmentConfiguration"
    THEN [again |-> TRUE, file |-> PropsAfterLoad(call.input), out |-> call.out]
    ELSE [again |-> FALSE, file |-> NoFile,
          out |-> [environments |-> <<>>, totalCount |-> 0]]

\* a loader that keeps the collection it returned and returns it again
CallLoadCached ==
  /\ call' = [fn |-> "loadEnvironmentConfiguration",
              input |-> propsFile,
              previous |-> PreviousLoad,
              out |-> IF PreviousLoad.again THEN PreviousLoad.out
                      ELSE loadEnvironmentConfiguration(propsFile)]
  /\ propsFile' = PropsAfterLoad(propsFile)
  /\ UNCHANGED sysVars

CallLoad ==
  /\ call' = [fn |-> "loadEnvironmentConfiguration",
              input |-> propsFile,
              previous |-> PreviousLoad,
              out |-> loadEnvironmentConfiguration(propsFile)]
  /\ propsFile' = PropsAfterLoad(propsFile)
  /\ UNCHANGED sysVars

NextParser == CallParse \/ CallValidateProps \/ CallValidateConfig \/ CallLoad

SpecParser == InitParser /\ [][NextParser]_vars

(***************************************************************************)
(* Claims about the loader and the parser (checked under SpecParser)       *)
(***************************************************************************)
DefaultCollection == parseEnvironmentProps(DEFAULT_ENVIRONMENTS_CONTENT)

HardLineErrors ==
  {"InvalidFormat", "EmptyDisplayName", "EmptyConfigFile",
   "DuplicateDisplayName", "DuplicateConfigFile"}

HasHardLineError(validation) ==
  \E i \in 1..Len(validation.errors) : validation.errors[i].kind \in HardLineErrors

\* C1: whatever the state of the properties file (missing, unreadable, garbage,
\* only comment or blank lines, only malformed lines), the collection that
\* loadEnvironmentConfiguration returns has at least one environment.
C1_LoadNeverEmpty ==
  call.fn = "loadEnvironmentConfiguration" =>
    /\ Len(call.out.environments) > 0
    /\ call.out.totalCount > 0

\* C2: when the properties file is readable and its text has a hard line error
\* (no ':', empty display name, empty file name, duplicate name or file),
\* loadEnvironmentConfiguration returns the default collection Local, Dev, Prod.
C2_InvalidTextFallsBackToDefault ==
  ( /\ call.fn = "loadEnvironmentConfiguration"
    /\ call.input.exists /\ call.input.readable
    /\ HasHardLineError(validateEnvironmentProps(call.input.text)) )
  => call.out = DefaultCollection

\* C3: for every text, parseEnvironmentProps returns totalCount equal to the
\* number of environments and positions exactly 0..totalCount-1 in order: each
\* descriptor's position is its 0-based index among the accepted lines.
C3_PositionsAreAcceptedIndices ==
  call.fn = "parseEnvironmentProps" =>
    /\ call.out.totalCount = Len(call.out.environments)
    /\ \A i \in 1..Len(call.out.environments) :
         call.out.environments[i].position = i - 1

(***************************************************************************)
(* extension.ts, statusBar.ts, mcpSelector.ts: parts of the handlers       *)
(***************************************************************************)
ExistingFiles(files) == {f \in DOMAIN files : files[f] # "absent"}

LegacyFiles == {<<"x", JSON>>, <<"y", JSON>>, <<"z", JSON>>}

\* detectLegacyConfiguration
detectLegacyConfiguration(files) == \E f \in LegacyFiles : FileKind(files, f) # "absent"

\* a migration that does not look for an existing properties file
migrateLegacyOverwrite(file, files) ==
  IF detectLegacyConfiguration(files)
    THEN createDefaultEnvironmentProps
    ELSE file

\* migrateLegacyConfiguration: the properties file it leaves
migrateLegacyConfiguration(file, files) ==
  IF detectLegacyConfiguration(files) /\ ~file.exists
    THEN createDefaultEnvironmentProps
    ELSE file

\* legacyMapping of migrateWorkspaceState: 'local', 'dev', 'prod' are "l", "d", "p"
LegacyTokens == {<<"l">>, <<"d">>, <<"p">>}
legacyMapping(storedEnv) ==
  IF storedEnv = <<"l">> THEN <<"L">>
  ELSE IF storedEnv = <<"d">> THEN <<"D">>
  ELSE <<"P">>

\* a remap that does not look for the capitalized name in the collection
migrateWorkspaceStateUnchecked(collection, storedEnv) ==
  IF storedEnv # <<>> /\ storedEnv \in LegacyTokens
    THEN legacyMapping(storedEnv)
    ELSE storedEnv

\* migrateWorkspaceState: the workspace state it leaves
migrateWorkspaceState(collection, storedEnv) ==
  IF storedEnv # <<>> /\ storedEnv \in LegacyTokens
    THEN IF FindIndex(collection.environments, legacyMapping(storedEnv)) # -1
           THEN legacyMapping(storedEnv)
           ELSE storedEnv
    ELSE storedEnv

\* updateStatusBarEnvironment: the text and the colour it renders, which are
\* assigned before getConfigFilePath (for the tooltip) may throw
updateStatusBarEnvironment(collection, stored) ==
  LET currentEnv == IF stored # <<>> THEN stored ELSE getDefaultEnvironment(collection)
  IN [throws |-> getConfigFilePath(collection, currentEnv).throws,
      item |-> [env |-> currentEnv,
                icon |-> getEnvironmentIcon(collection, currentEnv),
                color |-> getEnvironmentColor(collection, currentEnv)]]

\* the configuration file of displayName exists (copyConfigToCursor's check)
ConfigPresent(collection, files, displayName) ==
  LET source == getConfigFilePath(collection, displayName) IN
  ~source.throws /\ FileKind(files, source.file) # "absent"

\* the companion endpoint-URL file of displayName exists (copyIdpUrlToCursor's check)
CompanionPresent(collection, urls, displayName) ==
  LET source == getIdpUrlFilePath(collection, displayName) IN
  ~source.throws /\ source.file \in urls

\* a sendCredentials call that waits for the read of the endpoint-URL file
SendTask(origin) == [origin |-> origin, pc |-> "read"]

\* what switchToEnvironment leaves when 'await sendCredentials(context)' first
\* waits on the event loop: sw is the result of switchToEnvironment up to that
\* await ('await import' of a module that is already loaded resumes before any
\* other event is handled)
RunSwitch(collection, files, sw) ==
  LET begin == sendCredentialsBegin(collection, files, sw.mcp, sw.idp, sw.stored,
                                    sw.used)
  IN
  [throws |-> sw.throws, success |-> sw.success, send |-> sw.send,
   idpUrlCopied |-> sw.idpUrlCopied,
   mcp |-> IF sw.send THEN begin.mcp ELSE sw.mcp,
   idp |-> sw.idp, stored |-> sw.stored,
   used |-> IF sw.send THEN begin.used ELSE sw.used,
   steps |-> sw.steps,
   tasks |-> IF sw.send /\ begin.pending THEN <<SendTask("switch")>> ELSE <<>>]

\* a variant that renders the status bar after the files are copied
TransitionStepsApplyFirst(switchSteps) ==
  <<"persist">> \o switchSteps \o <<"updateStatusBar">>

\* the steps of an accepted transition of switchEnvironment or selectEnvironment
TransitionSteps(switchSteps) == <<"persist", "updateStatusBar">> \o switchSteps


(***************************************************************************)
(* The system: initial states                                              *)
(***************************************************************************)
Line(name, file) == name \o <<":">> \o file

\* the texts an external editor writes into the properties file
EditedTexts ==
  { DEFAULT_ENVIRONMENTS_CONTENT,
    Join(<< Line(<<"D">>, <<"y">>) >>),
    Join(<< <<"q">>, Line(<<"L">>, <<"x">>), Line(<<"P">>, <<"z">>) >>),
    Join(<< <<"#", "c">> >>) }

\* the installations the extension starts in: the configuration files and the
\* companion endpoint-URL files of ~/.vscode/mcp-selector
Installations ==
  { [files |-> [f \in EnvFileNames |-> "absent"], urls |-> {}],
    [files |-> (<<"x", JSON>> :> "template") @@ (<<"y", JSON>> :> "plain")
                 @@ (<<"z", JSON>> :> "absent"),
     urls |-> {<<"x">>}],
    [files |-> (<<"x", JSON>> :> "template") @@ (<<"y", JSON>> :> "template")
                 @@ (<<"z", JSON>> :> "plain"),
     urls |-> {<<"x">>, <<"y">>}] }

InitialStored == { <<>>, <<"D">>, <<"l">> }

Init ==
  /\ propsFile \in {NoFile} \cup {FileWith(text) : text \in EditedTexts}
  /\ call = NoCall
  /\ \E inst \in Installations :
       /\ envFiles = inst.files
       /\ idpUrlFiles = inst.urls
  /\ cursorMcp = AbsentMcp
  /\ cursorIdpUrl = AbsentUrl
  /\ mcpCurrentEnv \in InitialStored
  /\ phase = "inactive"
  /\ statusBarItem = NoStatusBar
  /\ changePending = FALSE
  /\ quickPick = <<>>
  /\ sends = <<>>
  /\ credentialsSenderInterval = NoInterval
  /\ intervals = {}
  /\ senderLast = NoSenderEvent
  /\ last = NoTransition
  /\ applied = FALSE

\* what a call of startCredentialsSender did, live being the live intervals
\* before it: whether a timer was live, whether the call created an interval
\* and whether it called sendCredentials
StartEvent(live, started) ==
  [NoSenderEvent EXCEPT !.op = "start",
                        !.hadTimer = (live # {}),
                        !.started = (started.live # live),
                        !.immediate = started.immediate]

\* how a sendCredentials call ended: failed tells whether the send failed,
\* rejected whether the call rejected to its caller
SettleEvent(rejectedInside) ==
  [NoSenderEvent EXCEPT !.op = "settle",
                        !.failed = rejectedInside,
                        !.rejected = sendCredentialsRejects(rejectedInside)]

(***************************************************************************)
(* activate (extension.ts)                                                 *)
(***************************************************************************)
Activate ==
  /\ phase = "inactive"
  /\ \E file \in {migrateLegacyConfiguration(
                    createDefaultEnvironmentPropsIfNeeded(propsFile), envFiles)} :
     \E envConfig \in {loadEnvironmentConfiguration(file)} :
     \E files \in {ensureAllConfigFiles(envConfig, envFiles)} :
     \E migrated \in {migrateWorkspaceState(envConfig, mcpCurrentEnv)} :
     LET validation == validateEnvironmentConfig(envConfig.environments,
                                                 ExistingFiles(envFiles))
         defaultEnv == getDefaultEnvironment(envConfig)
         initialEnv == IF migrated # <<>> THEN migrated ELSE defaultEnv
         stale == FindIndex(envConfig.environments, initialEnv) = -1
         target == IF stale THEN defaultEnv ELSE initialEnv
         stored == IF stale THEN defaultEnv ELSE migrated
     IN
     \E copyFails \in BOOLEAN :
     \E sw \in {switchToEnvironment(envConfig, files, idpUrlFiles, cursorMcp,
                                    cursorIdpUrl, stored, LiveUuids, target,
                                    copyFails)} :
     \E run \in {RunSwitch(envConfig, files, sw)} :
     \E bar \in {updateStatusBarEnvironment(envConfig, run.stored)} :
     \* startCredentialsSender, reached unless updateStatusBarEnvironment throws
     \E started \in {startCredentialsSender(credentialsSenderInterval, intervals,
                                             run.idp.exists)} :
     \E begin \in {sendCredentialsBegin(envConfig, files, run.mcp, run.idp,
                                        run.stored, run.used)} :
     LET start == ~bar.throws /\ started.immediate IN
     /\ propsFile' = PropsAfterLoad(file)
     /\ IF ~validation.isValid
          THEN /\ phase' = "failed"
               /\ UNCHANGED <<envFiles, cursorMcp, cursorIdpUrl, mcpCurrentEnv,
                              statusBarItem, sends, credentialsSenderInterval,
                              intervals>>
               /\ last' = NoTransition
               /\ senderLast' = NoSenderEvent
               /\ UNCHANGED applied
          ELSE /\ phase' = "active"
               /\ applied' = run.success
               /\ envFiles' = files
               /\ cursorMcp' = IF start THEN begin.mcp ELSE run.mcp
               /\ cursorIdpUrl' = run.idp
               /\ mcpCurrentEnv' = run.stored
               /\ statusBarItem' = bar.item
               /\ sends' = run.tasks \o
                    (IF start /\ begin.pending
                       THEN <<SendTask("timer")>>
                       ELSE <<>>)
               /\ credentialsSenderInterval' =
                    IF bar.throws THEN credentialsSenderInterval ELSE started.handle
               /\ intervals' = IF bar.throws THEN intervals ELSE started.live
               /\ senderLast' =
                    IF bar.throws THEN NoSenderEvent
                    ELSE StartEvent(intervals, started)
               /\ last' = [kind |-> "activate", accepted |-> TRUE,
                           aborted |-> run.throws, target |-> target,
                           names |-> DisplayNames(envConfig.environments),
                           prevEnv |-> mcpCurrentEnv, newEnv |-> run.stored,
                           fileExisted |-> ConfigPresent(envConfig, files, target),
                           companion |-> CompanionPresent(envConfig, idpUrlFiles, target),
                           copied |-> run.success,
                           idpUrlCopied |-> run.idpUrlCopied,
                           success |-> run.success, send |-> run.send,
                           steps |-> (IF stale THEN <<"persist">> ELSE <<>>)
                                       \o run.steps]
  /\ UNCHANGED <<call, idpUrlFiles, changePending, quickPick>>

(***************************************************************************)
(* switchEnvironment and selectEnvironment (mcpSelector.ts)                *)
(***************************************************************************)
\* the part shared by the two commands once the new name is chosen: persist,
\* updateStatusBarEnvironment, switchToEnvironment
ApplyTransition(kind, envConfig, nextEnv) ==
  \E bar \in {updateStatusBarEnvironment(envConfig, nextEnv)} :
  \E copyFails \in BOOLEAN :
  \E sw \in {switchToEnvironment(envConfig, envFiles, idpUrlFiles, cursorMcp,
                                 cursorIdpUrl, nextEnv, LiveUuids, nextEnv,
                                 copyFails)} :
  \E run \in {RunSwitch(envConfig, envFiles, sw)} :
  LET aborted == bar.throws \/ run.throws IN
  /\ mcpCurrentEnv' = nextEnv
  /\ statusBarItem' = bar.item
  /\ cursorMcp' = IF aborted THEN cursorMcp ELSE run.mcp
  /\ cursorIdpUrl' = IF aborted THEN cursorIdpUrl ELSE run.idp
  /\ sends' = IF aborted THEN sends ELSE sends \o run.tasks
  /\ Len(sends') > Len(sends) => Len(sends) < MaxInFlight
  /\ applied' = (~aborted /\ run.success)
  /\ senderLast' = NoSenderEvent
  /\ last' = [kind |-> kind, accepted |-> TRUE, aborted |-> aborted,
              target |-> nextEnv,
              names |-> DisplayNames(envConfig.environments),
              prevEnv |-> mcpCurrentEnv, newEnv |-> nextEnv,
              fileExisted |-> ConfigPresent(envConfig, envFiles, nextEnv),
              companion |-> CompanionPresent(envConfig, idpUrlFiles, nextEnv),
              copied |-> ~aborted /\ run.success,
              idpUrlCopied |-> ~aborted /\ run.idpUrlCopied,
              success |-> ~aborted /\ run.success,
              send |-> ~aborted /\ run.send,
              steps |-> IF bar.throws THEN <<"persist">>
                        ELSE TransitionSteps(run.steps)]

\* a variant that falls back to the default name and persists it
NoEnvironmentsPersistDefault(kind, envConfig) ==
  /\ last' = [NoTransition EXCEPT !.kind = kind, !.prevEnv = mcpCurrentEnv,
                                  !.newEnv = getDefaultEnvironment(envConfig)]
  /\ mcpCurrentEnv' = getDefaultEnvironment(envConfig)
  /\ UNCHANGED <<statusBarItem, cursorMcp, cursorIdpUrl, sends, applied>>
  /\ senderLast' = NoSenderEvent

\* a command that finds no environment: a warning is shown, nothing changes
NoEnvironmentsAvailable(kind, envConfig) ==
  /\ last' = [NoTransition EXCEPT !.kind = kind, !.prevEnv = mcpCurrentEnv,
                                  !.newEnv = mcpCurrentEnv]
  /\ UNCHANGED <<mcpCurrentEnv, statusBarItem, cursorMcp, cursorIdpUrl, sends,
                 applied>>
  /\ senderLast' = NoSenderEvent

\* a variant that stays on the last environment instead of wrapping
NextIndexNoWrap(currentIndex, length) ==
  IF currentIndex + 1 >= length THEN currentIndex ELSE currentIndex + 1

\* the index that switchEnvironment computes for the next environment
NextIndex(currentIndex, length) == (currentIndex + 1) % length

\* switchEnvironment: the toggle command (cycle-next)
SwitchEnvironment ==
  /\ phase = "active"
  /\ \E envConfig \in {loadEnvironmentConfiguration(propsFile)} :
     /\ propsFile' = PropsAfterLoad(propsFile)
     /\ IF Len(envConfig.environments) = 0
          THEN NoEnvironmentsAvailable("cycle", envConfig)
          ELSE
            LET currentEnv == IF mcpCurrentEnv # <<>> THEN mcpCurrentEnv
                              ELSE getDefaultEnvironment(envConfig)
                currentIndex == FindIndex(envConfig.environments, currentEnv)
                nextIndex == NextIndex(currentIndex, Len(envConfig.environments))
                nextEnv == envConfig.environments[nextIndex + 1].displayName
            IN ApplyTransition("cycle", envConfig, nextEnv)
  /\ UNCHANGED <<call, envFiles, idpUrlFiles, phase, changePending, quickPick,
                 credentialsSenderInterval, intervals>>

\* selectEnvironment: the command loads the collection and opens the quick pick
SelectEnvironment ==
  /\ phase = "active"
  /\ quickPick = <<>>
  /\ \E envConfig \in {loadEnvironmentConfiguration(propsFile)} :
     /\ propsFile' = PropsAfterLoad(propsFile)
     /\ IF Len(envConfig.environments) = 0
          THEN /\ NoEnvironmentsAvailable("select", envConfig)
               /\ UNCHANGED quickPick
          ELSE /\ quickPick' = DisplayNames(envConfig.environments)
               /\ last' = NoTransition
               /\ senderLast' = NoSenderEvent
               /\ UNCHANGED <<mcpCurrentEnv, statusBarItem, cursorMcp, cursorIdpUrl,
                              sends, applied>>
  /\ UNCHANGED <<call, envFiles, idpUrlFiles, phase, changePending,
                 credentialsSenderInterval, intervals>>

\* the callback of showQuickPick with a pick: the collection is loaded again by
\* the functions it calls, the offered names are not checked against it
PickEnvironment ==
  /\ phase = "active"
  /\ quickPick # <<>>
  /\ \E i \in 1..Len(quickPick) :
       \E envConfig \in {loadEnvironmentConfiguration(propsFile)} :
       /\ propsFile' = PropsAfterLoad(propsFile)
       /\ ApplyTransition("select", envConfig, quickPick[i])
  /\ quickPick' = <<>>
  /\ UNCHANGED <<call, envFiles, idpUrlFiles, phase, changePending,
                 credentialsSenderInterval, intervals>>

\* the callback of showQuickPick without a pick (the user dismissed it)
DismissQuickPick ==
  /\ quickPick # <<>>
  /\ quickPick' = <<>>
  /\ UNCHANGED <<propsFile, call, envFiles, idpUrlFiles, cursorMcp, cursorIdpUrl,
                 mcpCurrentEnv, phase, statusBarItem, changePending, sends,
                 credentialsSenderInterval, intervals>>
  /\ last' = NoTransition
  /\ senderLast' = NoSenderEvent
  /\ UNCHANGED applied

(***************************************************************************)
(* The properties file is edited; the watcher reloads (extension.ts)       *)
(***************************************************************************)
EditProps ==
  /\ phase = "active"
  /\ \E text \in EditedTexts :
       /\ propsFile # FileWith(text)
       /\ propsFile' = FileWith(text)
  /\ changePending' = TRUE
  /\ UNCHANGED <<call, envFiles, idpUrlFiles, cursorMcp, cursorIdpUrl,
                 mcpCurrentEnv, phase, statusBarItem, quickPick, sends,
                 credentialsSenderInterval, intervals>>
  /\ last' = NoTransition
  /\ senderLast' = NoSenderEvent
  /\ applied' = FALSE

\* reloadEnvironmentConfiguration, the callback of fs.watch
ReloadEnvironmentConfiguration ==
  /\ changePending
  /\ phase = "active"
  /\ changePending' = FALSE
  /\ \E envConfig \in {loadEnvironmentConfiguration(propsFile)} :
     \E bar \in {updateStatusBarEnvironment(envConfig, mcpCurrentEnv)} :
     LET validation == validateEnvironmentConfig(envConfig.environments,
                                                 ExistingFiles(envFiles))
     IN
     /\ propsFile' = PropsAfterLoad(propsFile)
     /\ statusBarItem' = IF validation.isValid THEN bar.item ELSE statusBarItem
  /\ UNCHANGED <<call, envFiles, idpUrlFiles, cursorMcp, cursorIdpUrl,
                 mcpCurrentEnv, phase, quickPick, sends,
                 credentialsSenderInterval, intervals>>
  /\ last' = NoTransition
  /\ senderLast' = NoSenderEvent
  /\ UNCHANGED applied

(***************************************************************************)
(* credentialsSender.ts: the interval timer and the asynchronous sends     *)
(***************************************************************************)
RemoveAt(seq, i) == SubSeq(seq, 1, i - 1) \o SubSeq(seq, i + 1, Len(seq))

\* what a tick did: current tells whether the interval that fired is the one
\* the handle names, skipped whether sendCredentials returned at once because
\* the active endpoint-URL file is missing (a plain return)
TickEvent(current, skipped) ==
  [NoSenderEvent EXCEPT !.op = "tick",
                        !.hadTimer = current,
                        !.failed = skipped,
                        !.rejected = sendCredentialsRejects(FALSE)]

\* a tick of a live interval: the callback calls sendCredentials, which runs
\* up to the read of the endpoint-URL file
TimerTick ==
  /\ \E t \in intervals :
     \E envConfig \in {loadEnvironmentConfiguration(propsFile)} :
     \E begin \in {sendCredentialsBegin(envConfig, envFiles, cursorMcp,
                                        cursorIdpUrl, mcpCurrentEnv, LiveUuids)} :
     /\ propsFile' = PropsAfterLoad(propsFile)
     /\ cursorMcp' = begin.mcp
     /\ sends' = IF begin.pending
                   THEN Append(sends, SendTask("timer"))
                   ELSE sends
     /\ Len(sends') > Len(sends) => Len(sends) < MaxInFlight
     /\ senderLast' = TickEvent(t = credentialsSenderInterval, ~begin.pending)
  /\ UNCHANGED <<call, envFiles, idpUrlFiles, cursorIdpUrl, mcpCurrentEnv, phase,
                 statusBarItem, changePending, quickPick,
                 credentialsSenderInterval, intervals>>
  /\ last' = NoTransition
  /\ UNCHANGED applied

\* the callback of fs.readFile in readMcpIdpUrl, then sendCredentials up to the
\* request: a failed read ends the call in the catch of sendCredentials,
\* otherwise the POST is issued
SendReadDone ==
  \E i \in 1..Len(sends) :
  \E read \in ReadResults :
  \E url \in {readMcpIdpUrl(cursorIdpUrl.exists, read)} :
    /\ sends[i].pc = "read"
    /\ sends' = IF url.rejects
                  THEN RemoveAt(sends, i)
                  ELSE [sends EXCEPT ![i] = [@ EXCEPT !.pc = "post"]]
    /\ senderLast' = IF url.rejects THEN SettleEvent(TRUE) ELSE NoSenderEvent
    /\ last' = NoTransition
    /\ UNCHANGED applied
    /\ UNCHANGED <<propsFile, call, envFiles, idpUrlFiles, cursorMcp, cursorIdpUrl,
                   mcpCurrentEnv, phase, statusBarItem, changePending, quickPick,
                   credentialsSenderInterval, intervals>>

\* the request settles (2xx, another status, a network error or the timeout):
\* sendCredentials ends, in its catch unless the status was 2xx
SendSettle ==
  \E i \in 1..Len(sends) :
  \E outcome \in RequestOutcomes :
    /\ sends[i].pc = "post"
    /\ sends' = RemoveAt(sends, i)
    /\ senderLast' = SettleEvent(sendCredentialsToMcpServer(outcome).rejects)
    /\ last' = NoTransition
    /\ UNCHANGED applied
    /\ UNCHANGED <<propsFile, call, envFiles, idpUrlFiles, cursorMcp, cursorIdpUrl,
                   mcpCurrentEnv, phase, statusBarItem, changePending, quickPick,
                   credentialsSenderInterval, intervals>>

\* what a call of stopCredentialsSender did, live being the live intervals
\* before it
StopEvent(live) ==
  [NoSenderEvent EXCEPT !.op = "stop", !.hadTimer = (live # {})]

\* deactivate: stopCredentialsSender; the subscriptions (commands, watcher) are
\* disposed with the extension
Deactivate ==
  /\ phase = "active"
  /\ phase' = "deactivated"
  /\ \E stopped \in {stopCredentialsSender(credentialsSenderInterval, intervals)} :
       /\ credentialsSenderInterval' = stopped.handle
       /\ intervals' = stopped.live
  /\ senderLast' = StopEvent(intervals)
  /\ changePending' = FALSE
  /\ quickPick' = <<>>
  /\ UNCHANGED <<propsFile, call, envFiles, idpUrlFiles, cursorMcp, cursorIdpUrl,
                 mcpCurrentEnv, statusBarItem, sends>>
  /\ last' = NoTransition
  /\ UNCHANGED applied

Next ==
  \/ Activate
  \/ SwitchEnvironment
  \/ SelectEnvironment
  \/ PickEnvironment
  \/ DismissQuickPick
  \/ EditProps
  \/ ReloadEnvironmentConfiguration
  \/ TimerTick
  \/ SendReadDone
  \/ SendSettle
  \/ Deactivate

Spec == Init /\ [][Next]_vars

(***************************************************************************)
(* credentialsSender.ts: any sequence of startCredentialsSender and        *)
(* stopCredentialsSender calls, made directly or by activate and           *)
(* deactivate, with the ticks and the sends they cause                     *)
(***************************************************************************)
\* a direct call of startCredentialsSender: the guard on the handle, the
\* existence check, the immediate sendCredentials (up to the read of the
\* endpoint-URL file) and setInterval
StartCredentialsSender ==
  /\ \E started \in {startCredentialsSender(credentialsSenderInterval, intervals,
                                             cursorIdpUrl.exists)} :
     \E envConfig \in {loadEnvironmentConfiguration(propsFile)} :
     \E begin \in {sendCredentialsBegin(envConfig, envFiles, cursorMcp,
                                        cursorIdpUrl, mcpCurrentEnv, LiveUuids)} :
     /\ propsFile' = IF started.immediate THEN PropsAfterLoad(propsFile)
                                          ELSE propsFile
     /\ cursorMcp' = IF started.immediate THEN begin.mcp ELSE cursorMcp
     /\ sends' = IF started.immediate /\ begin.pending
                   THEN Append(sends, SendTask("start"))
                   ELSE sends
     /\ Len(sends') > Len(sends) => Len(sends) < MaxInFlight
     /\ credentialsSenderInterval' = started.handle
     /\ intervals' = started.live
     /\ senderLast' = StartEvent(intervals, started)
  /\ UNCHANGED <<call, envFiles, idpUrlFiles, cursorIdpUrl, mcpCurrentEnv, phase,
                 statusBarItem, changePending, quickPick>>
  /\ last' = NoTransition
  /\ UNCHANGED applied

\* a direct call of stopCredentialsSender
StopCredentialsSender ==
  /\ \E stopped \in {stopCredentialsSender(credentialsSenderInterval, intervals)} :
       /\ credentialsSenderInterval' = stopped.handle
       /\ intervals' = stopped.live
  /\ senderLast' = StopEvent(intervals)
  /\ UNCHANGED <<propsFile, call, envFiles, idpUrlFiles, cursorMcp, cursorIdpUrl,
                 mcpCurrentEnv, phase, statusBarItem, changePending, quickPick,
                 sends>>
  /\ last' = NoTransition
  /\ UNCHANGED applied

\* the workspace when the sender is driven directly: the active endpoint-URL
\* file is there or not
InitSender ==
  /\ propsFile \in {NoFile} \cup {FileWith(text) : text \in EditedTexts}
  /\ call = NoCall
  /\ \E inst \in Installations :
       /\ envFiles = inst.files
       /\ idpUrlFiles = inst.urls
       /\ cursorMcp \in {AbsentMcp, ContentOf(inst.files, <<"x", JSON>>)}
  /\ cursorIdpUrl \in {AbsentUrl, [exists |-> TRUE, from |-> <<"x">>]}
  /\ mcpCurrentEnv \in InitialStored
  /\ phase = "inactive"
  /\ statusBarItem = NoStatusBar
  /\ changePending = FALSE
  /\ quickPick = <<>>
  /\ sends = <<>>
  /\ credentialsSenderInterval = NoInterval
  /\ intervals = {}
  /\ senderLast = NoSenderEvent
  /\ last = NoTransition
  /\ applied = FALSE

\* the active endpoint-URL file is removed from outside the extension: the
\* file mcpIdpUrlFileExists looks for is gone at the next check
DeleteCursorIdpUrl ==
  /\ cursorIdpUrl.exists
  /\ cursorIdpUrl' = AbsentUrl
  /\ senderLast' = NoSenderEvent
  /\ last' = NoTransition
  /\ UNCHANGED applied
  /\ UNCHANGED <<propsFile, call, envFiles, idpUrlFiles, cursorMcp, mcpCurrentEnv,
                 phase, statusBarItem, changePending, quickPick, sends,
                 credentialsSenderInterval, intervals>>

NextSender ==
  \/ Activate
  \/ Deactivate
  \/ StartCredentialsSender
  \/ StopCredentialsSender
  \/ DeleteCursorIdpUrl
  \/ TimerTick
  \/ SendReadDone
  \/ SendSettle

SpecSender == InitSender /\ [][NextSender]_vars

\* the handle names the live interval, if any
HandleIsLiveInterval == intervals = {credentialsSenderInterval} \ {NoInterval}

\* C11: after any sequence of start and stop calls at most one interval is
\* live, and it is the one the handle names; a start call made while an
\* interval is live creates no interval and calls sendCredentials no further
\* time.
C11_AtMostOneTimer ==
  /\ Cardinality(intervals) <= 1
  /\ HandleIsLiveInterval
  /\ (senderLast.op = "start" /\ senderLast.hadTimer)
       => (~senderLast.started /\ ~senderLast.immediate)

\* a start call was made while an interval was live, and one interval is live
C11_Witness ==
  /\ senderLast.op = "start"
  /\ senderLast.hadTimer
  /\ Cardinality(intervals) = 1

(***************************************************************************)
(* The switch transitions: properties of the system                        *)
(***************************************************************************)
\* the collection that a load returns in the current state
LoadedNow == loadEnvironmentConfiguration(propsFile)

Range(seq) == {seq[i] : i \in 1..Len(seq)}

\* the configuration file that backs the persisted current environment
PersistedFile == getConfigFilePath(LoadedNow, mcpCurrentEnv)

\* the active configuration file holds the content of the configuration file f,
\* the placeholder possibly replaced by a UUID
ActiveIsCopyOf(f) ==
  /\ cursorMcp.body # "absent"
  /\ cursorMcp.body = FileKind(envFiles, f)
  /\ cursorMcp.body = "default" \/ cursorMcp.from = f

\* a switchToEnvironment call of a command still waits for its sendCredentials
SwitchInFlight == \E i \in 1..Len(sends) : sends[i].origin = "switch"

\* the handler that led to this state was a switch transition of a command
CommandTransition == last.accepted /\ last.kind \in {"cycle", "select"}

\* C4: after activation, once the watcher has handled every edit of the
\* properties file, the persisted current-environment value names a
\* displayName of the (non-empty) collection that a load returns; a persisted
\* name that an edit removed has been replaced
C4_PersistedNamesLoadedEnvironment ==
  (phase = "active" /\ ~changePending /\ Len(LoadedNow.environments) > 0)
    => mcpCurrentEnv \in NameSet(LoadedNow)

\* C5: a direct-select whose target is not in the (non-empty) collection
\* loaded when the pick is applied is rejected: the persisted value is
\* unchanged and no file is copied
C5_StaleSelectRejected ==
  (/\ last.kind = "select"
   /\ last.accepted
   /\ Len(last.names) > 0
   /\ last.target \notin Range(last.names))
    => /\ mcpCurrentEnv = last.prevEnv
       /\ ~last.copied

\* C6 as stated: after activation, whenever no switch transition is in flight
\* (and no edit of the properties file waits for the watcher, and the persisted
\* value names an environment of the collection), the active configuration
\* file is a full copy of the configuration file of the environment named by
\* the persisted value
C6_ActiveIsCopyOfPersisted ==
  (/\ phase = "active"
   /\ ~SwitchInFlight
   /\ ~changePending
   /\ mcpCurrentEnv \in NameSet(LoadedNow))
    => /\ ~PersistedFile.throws
       /\ ActiveIsCopyOf(PersistedFile.file)

\* C6 (amended): whenever the most recent switch transition reported success
\* and the properties file has not been edited since, the active configuration
\* file is a full copy (the placeholder possibly replaced by a UUID) of the
\* configuration file of the environment named by the persisted value
C6_ActiveIsCopyAfterSuccess ==
  applied
    => /\ ~PersistedFile.throws
       /\ ActiveIsCopyOf(PersistedFile.file)

\* a cycle-next has just succeeded on a configuration file with the placeholder
C6_Witness ==
  /\ applied
  /\ last.kind = "cycle"
  /\ last.success
  /\ last.prevEnv # last.target
  /\ cursorMcp.body = "template"
  /\ cursorMcp.uuid # 0
  /\ ~PersistedFile.throws
  /\ cursorMcp.from = PersistedFile.file

\* C7: when the configuration file backing the requested environment does not
\* exist as a switch is applied, the transition reports false, the active
\* configuration file is unchanged, the persisted value is the requested name
\* and no credential send is triggered
C7_MissingFileFailsSwitch ==
  [][ (last'.accepted /\ ~last'.aborted /\ ~last'.fileExisted)
        => /\ ~last'.success
           /\ cursorMcp' = cursorMcp
           /\ cursorIdpUrl' = cursorIdpUrl \/ last'.companion
           /\ mcpCurrentEnv' = last'.target
           /\ ~last'.send
           /\ sends' = sends ]_vars

\* a cycle-next onto an environment whose configuration file is missing
C7_Witness ==
  /\ last.kind = "cycle"
  /\ last.accepted
  /\ ~last.aborted
  /\ ~last.fileExisted
  /\ mcpCurrentEnv = last.target
  /\ last.prevEnv # last.target
  /\ cursorMcp.body # "absent"

\* the index of name in names (0-based), -1 when it is not there
IndexIn(names, name) ==
  IF name \in Range(names)
    THEN (CHOOSE i \in 1..Len(names) :
            names[i] = name /\ \A j \in 1..(i - 1) : names[j] # name) - 1
    ELSE -1

\* C8: cycle-next sets the current value to the displayName at index
\* (i + 1) mod totalCount of the loaded collection, i being the index of the
\* persisted value and -1 when that value is not in the collection
C8_CycleNextIsSuccessorModulo ==
  (last.kind = "cycle" /\ last.accepted /\ last.prevEnv # <<>>)
    => LET i == IndexIn(last.names, last.prevEnv)
           n == Len(last.names)
       IN /\ last.target = last.names[((i + 1) % n) + 1]
          /\ mcpCurrentEnv = last.target
          /\ i = n - 1 => last.target = last.names[1]
          /\ i = -1 => last.target = last.names[1]

\* cycle-next from a persisted value that the collection no longer holds
C8_Witness ==
  /\ last.kind = "cycle"
  /\ last.accepted
  /\ Len(last.names) > 1
  /\ last.prevEnv # <<>>
  /\ last.prevEnv \notin Range(last.names)
  /\ mcpCurrentEnv = last.names[1]

\* step a occurs in steps, and every occurrence of b comes after its first one
Before(steps, a, b) ==
  /\ a \in Range(steps)
  /\ \A j \in 1..Len(steps) :
       steps[j] = b => \E i \in 1..(j - 1) : steps[i] = a

C10_SendOnlyWithCompanion ==
  (CommandTransition /\ last.send) => (last.success /\ last.companion)

\* sendCredentials ended without a send that the server accepted
FailedSend == senderLast.op \in {"tick", "settle"} /\ senderLast.failed

\* C12: a failed send (the endpoint-URL file missing, unreadable or empty, a
\* status outside 2xx, a network error, the timeout) does not reject to the
\* caller of sendCredentials, and it leaves the handle and the live interval
\* as they were: the interval the handle names stays live, which is all a
\* later tick needs.
C12_FailedSendSwallowed ==
  [][FailedSend' =>
       /\ ~senderLast'.rejected
       /\ UNCHANGED <<credentialsSenderInterval, intervals>>
       /\ (credentialsSenderInterval' # NoInterval
             => credentialsSenderInterval' \in intervals')]_vars

\* a send failed while the interval was live
C12_Witness ==
  /\ senderLast.op = "settle"
  /\ senderLast.failed
  /\ credentialsSenderInterval # NoInterval
  /\ credentialsSenderInterval \in intervals

C14_StartSendsAndLeavesTimer ==
  (senderLast.op = "start" /\ ~senderLast.hadTimer)
    => /\ senderLast.immediate
       /\ senderLast.started
       /\ credentialsSenderInterval # NoInterval
       /\ intervals = {credentialsSenderInterval}

(***************************************************************************)
(* Direct calls of getEnvironmentColor and getEnvironmentIcon              *)
(* (extension.ts), on the collection that the loader returns and, as the   *)
(* tests do, on a collection that replaces the loader's                    *)
(***************************************************************************)
\* the collections of the tests: n descriptors with distinct names and files
\* and the positions 0..n-1
MockName(i) == [k \in 1..i |-> "L"]
MockCollection(n) ==
  [environments |-> [i \in 1..n |-> [displayName |-> MockName(i),
                                     configFileName |-> MockName(i) \o <<JSON>>,
                                     position |-> i - 1]],
   totalCount |-> n]

\* the colour and the icon shown for entry number index (from 1) of collection
StyleCall(collection, index, mocked) ==
  [fn |-> "getEnvironmentStyle",
   input |-> collection.environments[index].displayName,
   collection |-> collection,
   index |-> index,
   mocked |-> mocked,
   out |-> [color |-> getEnvironmentColor(collection,
                        collection.environments[index].displayName),
            icon |-> getEnvironmentIcon(collection,
                        collection.environments[index].displayName)]]

\* getEnvironmentColor and getEnvironmentIcon for an environment of the
\* properties file (each of them loads the configuration itself)
CallGetEnvironmentStyle ==
  /\ \E loaded \in {loadEnvironmentConfiguration(propsFile)} :
     \E index \in 1..Len(loaded.environments) :
       call' = StyleCall(loaded, index, FALSE)
  /\ propsFile' = PropsAfterLoad(propsFile)
  /\ UNCHANGED sysVars

\* the same calls with loadEnvironmentConfiguration replaced, as in the suites
\* 'Dynamic Color Assignment Tests' and 'Dynamic Icon Assignment Tests'; the
\* properties file plays no part, the call is made where there is none
CallGetEnvironmentStyleMocked ==
  /\ ~propsFile.exists
  /\ \E n \in 1..MaxTotalCount :
     \E index \in 1..n :
       call' = StyleCall(MockCollection(n), index, TRUE)
  /\ UNCHANGED propsFile
  /\ UNCHANGED sysVars

\* the display names the two functions are asked about by name: names of the
\* default, the stored legacy tokens, the empty name and a name of no file
StyleNames == {<<>>, <<"L">>, <<"D">>, <<"P">>, <<"l">>, <<"q">>}

\* getEnvironmentColor and getEnvironmentIcon for any display name, in the
\* collection or not (updateStatusBarEnvironment passes the stored name)
CallGetEnvironmentStyleByName ==
  /\ \E loaded \in {loadEnvironmentConfiguration(propsFile)} :
     \E displayName \in StyleNames :
       call' = [fn |-> "getEnvironmentStyleByName",
                input |-> displayName,
                collection |-> loaded,
                out |-> [color |-> getEnvironmentColor(loaded, displayName),
                         icon |-> getEnvironmentIcon(loaded, displayName)]]
  /\ propsFile' = PropsAfterLoad(propsFile)
  /\ UNCHANGED sysVars

\* the path resolvers and the status-bar rendering for any display name, in
\* the collection or not: getConfigFilePath, getIdpUrlFilePath and
\* updateStatusBarEnvironment with that name stored
CallResolveByName ==
  /\ \E loaded \in {loadEnvironmentConfiguration(propsFile)} :
     \E displayName \in StyleNames \ {<<>>} :
       call' = [fn |-> "resolveByName",
                input |-> displayName,
                collection |-> loaded,
                configFilePath |-> getConfigFilePath(loaded, displayName),
                idpUrlFilePath |-> getIdpUrlFilePath(loaded, displayName),
                statusBar |-> updateStatusBarEnvironment(loaded, displayName)]
  /\ propsFile' = PropsAfterLoad(propsFile)
  /\ UNCHANGED sysVars

NextStatusBar ==
  \/ CallGetEnvironmentStyle
  \/ CallGetEnvironmentStyleMocked
  \/ CallGetEnvironmentStyleByName
  \/ CallResolveByName

SpecStatusBar == InitParser /\ [][NextStatusBar]_vars

Safe(style) == style.color = "#4caf50" /\ style.icon = "$(desktop-download)"
Caution(style) == style.color = "#ff9800" /\ style.icon = "$(beaker)"
Critical(style) == style.color = "#f44336" /\ style.icon = "$(rocket)"

\* C15: for a descriptor at position p of a collection of n descriptors
\* (0 <= p < n), colour and icon agree on the tier: p = 0 is green with the
\* desktop icon; p = n - 1 with n >= 2 is red with the rocket; for n <= 2
\* nothing is orange with the beaker; for n >= 3 every p strictly between 0
\* and n - 1 is orange with the beaker (n = 4: safe, caution, caution,
\* critical).
C15_TierByPosition ==
  (call.fn = "getEnvironmentStyle" /\ call.mocked) =>
    LET position == call.collection.environments[call.index].position
        totalCount == call.collection.totalCount
    IN /\ Safe(call.out) \/ Caution(call.out) \/ Critical(call.out)
       /\ position = 0 => Safe(call.out)
       /\ (totalCount >= 2 /\ position = totalCount - 1) => Critical(call.out)
       /\ totalCount <= 2 => ~Caution(call.out)
       /\ (totalCount >= 3 /\ 0 < position /\ position < totalCount - 1)
            => Caution(call.out)

\* the third of four descriptors was classified
C15_Witness ==
  /\ call.fn = "getEnvironmentStyle"
  /\ call.mocked
  /\ call.collection.totalCount = 4
  /\ call.index = 3
  /\ Caution(call.out)

\* the display names of the descriptors are pairwise distinct
DistinctNames(environments) ==
  \A i, j \in 1..Len(environments) :
    environments[i].displayName = environments[j].displayName => i = j

\* C16: for a properties text from which at least two environments (with
\* distinct names) are accepted, the first accepted entry is shown green with
\* the desktop icon, the last one red with the rocket and every entry between
\* them orange with the beaker.
C16_FirstGreenLastRed ==
  (/\ call.fn = "getEnvironmentStyle"
   /\ ~call.mocked
   /\ call.collection.totalCount >= 2
   /\ DistinctNames(call.collection.environments))
  => /\ call.index = 1 => Safe(call.out)
     /\ call.index = call.collection.totalCount => Critical(call.out)
     /\ (1 < call.index /\ call.index < call.collection.totalCount)
          => Caution(call.out)

(***************************************************************************)
(* The parser on well-formed texts, on its own output and on malformed     *)
(* lines (checked under SpecParser)                                        *)
(***************************************************************************)
\* the two halves of a line around its first ':'
NameHalf(line) == Trim(Substring(line, 0, IndexOf(line, ":")))
FileHalf(line) == Trim(Substring(line, IndexOf(line, ":") + 1, Len(line)))

\* a line 'Name:File': not blank, not a comment, with a ':' and two non-empty
\* halves
WellFormedLine(line) ==
  /\ Trim(line) # <<>>
  /\ ~StartsWithHash(Trim(line))
  /\ IndexOf(Trim(line), ":") # -1
  /\ NameHalf(Trim(line)) # <<>>
  /\ FileHalf(Trim(line)) # <<>>

\* a text of lines 'Name:File' with pairwise distinct names and pairwise
\* distinct normalized files, and no blank or comment line
WellFormedText(text) ==
  LET lines == Split(text) IN
  /\ \A i \in 1..Len(lines) : WellFormedLine(lines[i])
  /\ \A i, j \in 1..Len(lines) :
       i # j => /\ NameHalf(Trim(lines[i])) # NameHalf(Trim(lines[j]))
                /\ NormalizeConfigFile(FileHalf(Trim(lines[i])))
                     # NormalizeConfigFile(FileHalf(Trim(lines[j])))

\* the number of '.json' suffixes that a file name ends in
RECURSIVE JsonSuffixes(_)
JsonSuffixes(name) ==
  IF EndsWithJson(name) THEN 1 + JsonSuffixes(SubSeq(name, 1, Len(name) - 1))
  ELSE 0

\* a call of parseEnvironmentProps on a well-formed text
ParsedWellFormed ==
  /\ call.fn = "parseEnvironmentProps"
  /\ WellFormedText(call.input)

\* C17 as stated: on a well-formed text of n lines the parser returns n
\* descriptors in file order at the positions 0..n-1, and each configFileName
\* ends in exactly one '.json' suffix.
C17_ExactlyOneJsonSuffix ==
  ParsedWellFormed =>
    LET lines == Split(call.input)
        environments == call.out.environments
    IN /\ call.out.totalCount = Len(lines)
       /\ Len(environments) = Len(lines)
       /\ \A i \in 1..Len(environments) :
            /\ environments[i].displayName = NameHalf(Trim(lines[i]))
            /\ environments[i].position = i - 1
            /\ JsonSuffixes(environments[i].configFileName) = 1

\* C17, amended: on a well-formed text of n lines the parser returns n
\* descriptors in file order at the positions 0..n-1; each configFileName is
\* the file half itself when that ends with '.json' and the file half with
\* one '.json' appended otherwise, so it ends in exactly one '.json' suffix
\* unless the file half already ends in more than one.
C17_SuffixAppendedOnlyWhenMissing ==
  ParsedWellFormed =>
    LET lines == Split(call.input)
        environments == call.out.environments
    IN /\ call.out.totalCount = Len(lines)
       /\ Len(environments) = Len(lines)
       /\ \A i \in 1..Len(environments) :
            LET base == FileHalf(Trim(lines[i])) IN
            /\ environments[i].displayName = NameHalf(Trim(lines[i]))
            /\ environments[i].position = i - 1
            /\ EndsWithJson(base) => environments[i].configFileName = base
            /\ ~EndsWithJson(base)
                 => environments[i].configFileName = Append(base, JSON)
            /\ JsonSuffixes(base) <= 1
                 => JsonSuffixes(environments[i].configFileName) = 1

\* a well-formed text of several lines was parsed, one file half with the
\* suffix and one without
C17_Witness ==
  /\ ParsedWellFormed
  /\ Len(call.out.environments) >= 2
  /\ \E i, j \in 1..Len(Split(call.input)) :
       /\ EndsWithJson(FileHalf(Trim(Split(call.input)[i])))
       /\ ~EndsWithJson(FileHalf(Trim(Split(call.input)[j])))

\* the canonical text of a collection: one line 'displayName:configFileName'
\* per descriptor, in order
RECURSIVE SerializeLines(_)
SerializeLines(environments) ==
  IF environments = <<>> THEN <<>>
  ELSE <<Head(environments).displayName \o <<":">>
           \o Head(environments).configFileName>>
       \o SerializeLines(Tail(environments))

Serialize(collection) ==
  IF collection.environments = <<>> THEN <<>>
  ELSE Join(SerializeLines(collection.environments))

\* C18: parsing the canonical text of parseEnvironmentProps(t) gives a
\* collection equal to parseEnvironmentProps(t): the same names, file names,
\* positions and totalCount.
C18_ParseIdempotent ==
  call.fn = "parseEnvironmentProps"
    => parseEnvironmentProps(Serialize(call.out)) = call.out

\* a candidate line (trimmed, not empty, not a comment) that is malformed: no
\* ':', an empty display name or an empty file half
Malformed(line) ==
  IF IndexOf(line, ":") = -1 THEN TRUE
  ELSE NameHalf(line) = <<>> \/ FileHalf(line) = <<>>

MalformedLineErrors == {"InvalidFormat", "EmptyDisplayName", "EmptyConfigFile"}

\* the names and files of the descriptors, without the positions
NamesAndFiles(environments) ==
  [i \in 1..Len(environments) |->
     <<environments[i].displayName, environments[i].configFileName>>]

\* the names and files of the candidate lines that are not malformed, in order
ExpectedFrom(content) ==
  LET kept == SelectSeq(CandidateLines(content), LAMBDA l : ~Malformed(l))
  IN [i \in 1..Len(kept) |->
        <<NameHalf(kept[i]), NormalizeConfigFile(FileHalf(kept[i]))>>]

\* C19: parseEnvironmentProps returns a descriptor for each candidate line
\* that is not malformed and none for a malformed one (it has no raising
\* path), and validateEnvironmentProps reports, for every malformed candidate
\* line, a hard error with the number of that line, so the text is invalid.
C19_MalformedDroppedAndFlagged ==
  /\ call.fn = "parseEnvironmentProps"
       => NamesAndFiles(call.out.environments) = ExpectedFrom(call.input)
  /\ call.fn = "validateEnvironmentProps"
       => \A k \in 1..Len(CandidateLines(call.input)) :
            Malformed(CandidateLines(call.input)[k])
              => /\ ~call.out.isValid
                 /\ \E e \in 1..Len(call.out.errors) :
                      /\ call.out.errors[e].line = k
                      /\ call.out.errors[e].kind \in MalformedLineErrors

\* a text with a malformed candidate line and a well-formed one was validated
C19_Witness ==
  /\ call.fn = "validateEnvironmentProps"
  /\ \E k \in 1..Len(CandidateLines(call.input)) :
       Malformed(CandidateLines(call.input)[k])
  /\ \E k \in 1..Len(CandidateLines(call.input)) :
       ~Malformed(CandidateLines(call.input)[k])
  /\ ~call.out.isValid

\* the validation result holds an error of this kind for this line (or index)
HasError(validation, line, kind) ==
  \E e \in 1..Len(validation.errors) :
    validation.errors[e] = [line |-> line, kind |-> kind]

\* candidate lines i < j of the text carry the same display name
SameName(lines, i, j) ==
  /\ i < j
  /\ IndexOf(lines[i], ":") # -1 /\ IndexOf(lines[j], ":") # -1
  /\ NameHalf(lines[i]) # <<>>
  /\ NameHalf(lines[i]) = NameHalf(lines[j])

\* candidate lines i < j of the text carry the same normalized file name
SameFile(lines, i, j) ==
  /\ i < j
  /\ IndexOf(lines[i], ":") # -1 /\ IndexOf(lines[j], ":") # -1
  /\ FileHalf(lines[i]) # <<>> /\ FileHalf(lines[j]) # <<>>
  /\ NormalizeConfigFile(FileHalf(lines[i])) = NormalizeConfigFile(FileHalf(lines[j]))

\* C20: when two candidate lines of a text carry the same display name, or
\* file names that are the same once '.json' is appended where missing,
\* validateEnvironmentProps returns isValid = false with a duplicate error for
\* the later line; when two descriptors share displayName or configFileName,
\* validateEnvironmentConfig returns isValid = false with a duplicate error
\* for the later descriptor.
C20_DuplicatesAreHardErrors ==
  /\ call.fn = "validateEnvironmentProps"
       => LET lines == CandidateLines(call.input) IN
          \A i, j \in 1..Len(lines) :
            /\ SameName(lines, i, j)
                 => /\ ~call.out.isValid
                    /\ HasError(call.out, j, "DuplicateDisplayName")
            /\ SameFile(lines, i, j)
                 => /\ ~call.out.isValid
                    /\ HasError(call.out, j, "DuplicateConfigFile")
  /\ call.fn = "validateEnvironmentConfig"
       => \A i, j \in 1..Len(call.input) :
            /\ (i < j /\ call.input[i].displayName = call.input[j].displayName)
                 => /\ ~call.out.isValid
                    /\ HasError(call.out, j - 1, "DuplicateDisplayName")
            /\ (i < j /\ call.input[i].configFileName = call.input[j].configFileName)
                 => /\ ~call.out.isValid
                    /\ HasError(call.out, j - 1, "DuplicateConfigFile")

\* a text was validated in which two lines name the same file, once with and
\* once without the suffix
C20_Witness ==
  /\ call.fn = "validateEnvironmentProps"
  /\ \E i, j \in 1..Len(CandidateLines(call.input)) :
       /\ SameFile(CandidateLines(call.input), i, j)
       /\ FileHalf(CandidateLines(call.input)[i])
            # FileHalf(CandidateLines(call.input)[j])
  /\ ~call.out.isValid

(***************************************************************************)
(* The validators' results, the default and the legacy migration           *)
(***************************************************************************)
ValidatorCall ==
  call.fn \in {"validateEnvironmentProps", "validateEnvironmentConfig"}

WarningKinds == {"LongDisplayName", "UnusualCharacters", "ConfigFileNotFound"}

\* C21: in every result of validateEnvironmentProps and of
\* validateEnvironmentConfig isValid is true exactly when errors is empty;
\* long display names, unusual file-name characters and missing
\* configuration files are reported as warnings only, never as errors.
C21_ValidIffNoErrors ==
  ValidatorCall =>
    /\ call.out.isValid <=> (Len(call.out.errors) = 0)
    /\ \A e \in 1..Len(call.out.errors) :
         call.out.errors[e].kind \notin WarningKinds
    /\ \A w \in 1..Len(call.out.warnings) :
         call.out.warnings[w].kind \in WarningKinds

\* a text with an over-long display name was validated: a warning, and valid
C21_Witness ==
  /\ call.fn = "validateEnvironmentProps"
  /\ call.out.isValid
  /\ \E w \in 1..Len(call.out.warnings) :
       call.out.warnings[w].kind = "LongDisplayName"

ReportsNoEnvironments(validation) ==
  /\ ~validation.isValid
  /\ HasError(validation, NoEnvironmentsDefined.line, NoEnvironmentsDefined.kind)

\* C22 as stated: validateEnvironmentConfig reports 'No environments defined'
\* for the empty sequence, and validateEnvironmentProps for every text whose
\* parse is the empty collection.
C22_NoEnvironmentsWheneverParseEmpty ==
  /\ (call.fn = "validateEnvironmentConfig" /\ Len(call.input) = 0)
       => ReportsNoEnvironments(call.out)
  /\ (/\ call.fn = "validateEnvironmentProps"
      /\ parseEnvironmentProps(call.input).totalCount = 0)
       => ReportsNoEnvironments(call.out)

\* C22, amended: validateEnvironmentConfig reports 'No environments defined'
\* exactly for the empty sequence; validateEnvironmentProps reports it
\* exactly for the texts without a candidate line (empty, or only blank and
\* comment lines); a text whose candidate lines are all malformed is invalid
\* too, with the hard errors of those lines instead.
C22_NoEnvironmentsWhenNoCandidateLine ==
  /\ call.fn = "validateEnvironmentConfig"
       => (Len(call.input) = 0 <=> ReportsNoEnvironments(call.out))
  /\ call.fn = "validateEnvironmentProps"
       => /\ CandidateLines(call.input) = <<>>
               <=> ReportsNoEnvironments(call.out)
          /\ parseEnvironmentProps(call.input).totalCount = 0
               => ~call.out.isValid
          /\ (/\ parseEnvironmentProps(call.input).totalCount = 0
              /\ CandidateLines(call.input) # <<>>)
               => \E e \in 1..Len(call.out.errors) :
                    call.out.errors[e].kind \in MalformedLineErrors

\* a text of comment lines only was validated
C22_Witness ==
  /\ call.fn = "validateEnvironmentProps"
  /\ call.input # <<>>
  /\ CandidateLines(call.input) = <<>>
  /\ ReportsNoEnvironments(call.out)

\* Local -> mcp-local.json, Dev -> mcp-dev.json, Prod -> mcp-prod.json
ThreeEntryCollection ==
  [environments |->
     << [displayName |-> <<"L">>, configFileName |-> <<"x", JSON>>, position |-> 0],
        [displayName |-> <<"D">>, configFileName |-> <<"y", JSON>>, position |-> 1],
        [displayName |-> <<"P">>, configFileName |-> <<"z", JSON>>, position |-> 2] >>,
   totalCount |-> 3]

\* loadEnvironmentConfiguration was called while no properties file existed
LoadedWithoutFile ==
  /\ call.fn = "loadEnvironmentConfiguration"
  /\ ~call.input.exists

\* C23: called without a properties file, loadEnvironmentConfiguration
\* returns Local, Dev, Prod with mcp-local.json, mcp-dev.json, mcp-prod.json
\* at the positions 0, 1, 2; afterwards the properties file exists and holds
\* the default template, and the template and the returned collection pass
\* validation.
C23_AbsentFileGivesDefault ==
  LoadedWithoutFile =>
    /\ call.out = ThreeEntryCollection
    /\ propsFile.exists
    /\ propsFile.text = DEFAULT_ENVIRONMENTS_CONTENT
    /\ validateEnvironmentProps(propsFile.text).isValid
    /\ \A existing \in ExistingChoices(call.out.environments) :
         validateEnvironmentConfig(call.out.environments, existing).isValid

\* the loader was called without a properties file and created it
C23_Witness ==
  /\ LoadedWithoutFile
  /\ propsFile.exists
  /\ call.out.totalCount = 3

(***************************************************************************)
(* Direct calls of migrateLegacyConfiguration (environmentParser.ts) and   *)
(* of migrateWorkspaceState (extension.ts)                                 *)
(***************************************************************************)
\* what the environments subdirectory may hold before a migration
LegacyInstallations == [EnvFileNames -> {"absent", "plain", "template"}]

\* what the workspace state may hold: nothing, a legacy token, a display name
StoredChoices == {<<>>, <<"l">>, <<"d">>, <<"p">>, <<"L">>, <<"D">>, <<"q">>}

InitMigration ==
  /\ propsFile \in {NoFile, [exists |-> TRUE, readable |-> FALSE, text |-> <<>>]}
                     \cup {FileWith(text) : text \in EditedTexts}
  /\ call = NoCall
  /\ envFiles \in LegacyInstallations
  /\ idpUrlFiles = {}
  /\ cursorMcp = AbsentMcp
  /\ cursorIdpUrl = AbsentUrl
  /\ mcpCurrentEnv \in StoredChoices
  /\ phase = "inactive"
  /\ statusBarItem = NoStatusBar
  /\ changePending = FALSE
  /\ quickPick = <<>>
  /\ sends = <<>>
  /\ credentialsSenderInterval = NoInterval
  /\ intervals = {}
  /\ senderLast = NoSenderEvent
  /\ last = NoTransition
  /\ applied = FALSE

CallMigrateLegacy ==
  /\ call' = [fn |-> "migrateLegacyConfiguration",
              input |-> propsFile,
              files |-> envFiles]
  /\ propsFile' = migrateLegacyConfiguration(propsFile, envFiles)
  /\ UNCHANGED sysVars

\* migrateWorkspaceState: the configuration is loaded only for a legacy token
CallMigrateWorkspaceState ==
  /\ \E loaded \in {loadEnvironmentConfiguration(propsFile)} :
       /\ call' = [fn |-> "migrateWorkspaceState",
                   input |-> mcpCurrentEnv,
                   collection |-> loaded]
       /\ mcpCurrentEnv' = migrateWorkspaceState(loaded, mcpCurrentEnv)
  /\ propsFile' = IF mcpCurrentEnv \in LegacyTokens
                    THEN PropsAfterLoad(propsFile)
                    ELSE propsFile
  /\ UNCHANGED <<envFiles, idpUrlFiles, cursorMcp, cursorIdpUrl, phase,
                 statusBarItem, changePending, quickPick, sends,
                 credentialsSenderInterval, last, applied, intervals,
                 senderLast>>

NextMigration == CallMigrateLegacy \/ CallMigrateWorkspaceState

SpecMigration == InitMigration /\ [][NextMigration]_vars

\* one of mcp-local.json, mcp-dev.json, mcp-prod.json exists
LegacyFileExists(files) ==
  \E f \in {<<"x", JSON>>, <<"y", JSON>>, <<"z", JSON>>} : files[f] # "absent"

Capitalized(token) ==
  CASE token = <<"l">> -> <<"L">>
    [] token = <<"d">> -> <<"D">>
    [] token = <<"p">> -> <<"P">>

\* the collection holds an environment of this display name
HasName(collection, name) ==
  \E i \in 1..Len(collection.environments) :
    collection.environments[i].displayName = name

\* C25: migrateWorkspaceState overwrites the persisted value with the
\* capitalized name when the value is one of local, dev, prod and the loaded
\* collection holds that name; in every other case (the capitalized name is
\* absent, the value is no legacy token, nothing is persisted) the persisted
\* value is as it was.
C25_RemapOnlyToExistingName ==
  call.fn = "migrateWorkspaceState" =>
    IF /\ call.input \in {<<"l">>, <<"d">>, <<"p">>}
       /\ HasName(call.collection, Capitalized(call.input))
      THEN mcpCurrentEnv = Capitalized(call.input)
      ELSE mcpCurrentEnv = call.input

\* a legacy token was remapped to its capitalized name
C25_Witness ==
  /\ call.fn = "migrateWorkspaceState"
  /\ call.input = <<"l">>
  /\ mcpCurrentEnv = <<"L">>

(***************************************************************************)
(* Direct calls of replaceTokenTemplateFromSource (configManager.ts)       *)
(***************************************************************************)
InitToken ==
  /\ propsFile \in {NoFile} \cup {FileWith(text) : text \in EditedTexts}
  /\ call = NoCall
  /\ \E inst \in Installations :
       /\ envFiles = inst.files
       /\ idpUrlFiles = inst.urls
       /\ cursorMcp \in {AbsentMcp, ContentOf(inst.files, <<"x", JSON>>),
                         ContentOf(inst.files, <<"y", JSON>>)}
  /\ cursorIdpUrl = AbsentUrl
  /\ mcpCurrentEnv \in InitialStored \cup {<<"L">>, <<"P">>}
  /\ phase = "inactive"
  /\ statusBarItem = NoStatusBar
  /\ changePending = FALSE
  /\ quickPick = <<>>
  /\ sends = <<>>
  /\ credentialsSenderInterval = NoInterval
  /\ intervals = {}
  /\ senderLast = NoSenderEvent
  /\ last = NoTransition
  /\ applied = FALSE

\* replaceTokenTemplateFromSource(context); source is what the configuration
\* file of the current environment holds, before the active file before the call
CallReplaceTokenTemplate ==
  /\ \E loaded \in {loadEnvironmentConfiguration(propsFile)} :
     \E result \in {replaceTokenTemplateFromSource(loaded, envFiles, cursorMcp,
                                                   mcpCurrentEnv, LiveUuids)} :
     \E path \in {getConfigFilePath(loaded, getCurrentEnvironment(loaded, mcpCurrentEnv))} :
       /\ call' = [fn |-> "replaceTokenTemplateFromSource",
                   input |-> mcpCurrentEnv,
                   source |-> IF path.throws THEN <<>>
                              ELSE FileContent(FileKind(envFiles, path.file)),
                   sourceExists |-> ~path.throws
                                     /\ FileKind(envFiles, path.file) # "absent",
                   sourceFile |-> path.file,
                   before |-> cursorMcp,
                   used |-> LiveUuids,
                   out |-> [success |-> result.success, uuid |-> result.uuid],
                   written |-> result.written]
       /\ cursorMcp' = result.mcp
  /\ propsFile' = PropsAfterLoad(propsFile)
  /\ UNCHANGED <<envFiles, idpUrlFiles, cursorIdpUrl, mcpCurrentEnv, phase,
                 statusBarItem, changePending, quickPick, sends,
                 credentialsSenderInterval, last, applied, intervals,
                 senderLast>>

NextToken == CallReplaceTokenTemplate

SpecToken == InitToken /\ [][NextToken]_vars

\* C26: when the configuration file of the current environment holds the
\* placeholder, the call reports success with a UUID that was not in use;
\* what it writes to the active file is the source with that UUID at every
\* occurrence of the placeholder and every other piece as it was, so no
\* placeholder remains; when the file exists without the placeholder, the
\* call reports success with no UUID, writes nothing and leaves the active
\* file as it was.
C26_EveryPlaceholderReplaced ==
  (call.fn = "replaceTokenTemplateFromSource" /\ call.sourceExists) =>
    IF \E i \in 1..Len(call.source) : call.source[i] = 0
      THEN /\ call.out.success
           /\ call.out.uuid > 0
           /\ call.out.uuid \notin call.used
           /\ Len(call.written) = Len(call.source)
           /\ \A i \in 1..Len(call.source) :
                call.written[i] = IF call.source[i] = 0 THEN call.out.uuid
                                  ELSE call.source[i]
           /\ \A i \in 1..Len(call.written) : call.written[i] # 0
           /\ cursorMcp = [body |-> "template", from |-> call.sourceFile,
                           uuid |-> call.out.uuid]
      ELSE /\ call.out.success
           /\ call.out.uuid = 0
           /\ call.written = NothingWritten
           /\ cursorMcp = call.before

\* a source with two occurrences of the placeholder was replaced while
\* another UUID was in use
C26_Witness ==
  /\ call.fn = "replaceTokenTemplateFromSource"
  /\ Cardinality({i \in 1..Len(call.source) : call.source[i] = 0}) >= 2
  /\ call.used # {}
  /\ call.out.uuid > 0

(***************************************************************************)
(* credentialsSender.ts: a tick while the endpoint-URL file is missing     *)
(***************************************************************************)
\* C27: every send that is started finds the active endpoint-URL file in
\* place (activate's switch may have copied it just before), and a tick that finds it missing starts no request, ends by a plain return
\* (nothing is thrown to the timer, the status bar is left alone) and leaves
\* the interval and its handle as they were
C27_MissingUrlFileTickNoOps ==
  [][/\ Len(sends') > Len(sends) => cursorIdpUrl'.exists
     /\ (senderLast'.op = "tick" /\ ~cursorIdpUrl.exists) =>
          /\ sends' = sends
          /\ senderLast'.failed
          /\ ~senderLast'.rejected
          /\ UNCHANGED <<credentialsSenderInterval, intervals, statusBarItem>>]_vars

\* a tick of the live interval has just found the endpoint-URL file missing
C27_Witness ==
  /\ senderLast.op = "tick"
  /\ senderLast.failed
  /\ ~cursorIdpUrl.exists
  /\ credentialsSenderInterval # NoInterval
  /\ credentialsSenderInterval \in intervals


(***************************************************************************)
(* configManager.ts: the companion endpoint-URL file is optional           *)
(***************************************************************************)
\* C28: a switch (by a command or by activate) whose configuration file is on
\* disk reports success, whether the companion endpoint-URL file is there or
\* not and whatever copyIdpUrlToCursor returned
C28_CompanionNeverFailsSwitch ==
  (last.accepted /\ last.fileExisted) => (~last.aborted /\ last.success)

\* a command switched to an environment whose configuration file exists and
\* whose companion endpoint-URL file does not, and reported success
C28_Witness ==
  /\ last.kind \in {"cycle", "select"}
  /\ last.fileExisted
  /\ ~last.companion
  /\ last.success


(***************************************************************************)
(* extension.ts: the colour and the icon of a name that is not found       *)
(***************************************************************************)
\* C29: for a display name that no descriptor of the loaded collection
\* carries, getEnvironmentColor returns green and getEnvironmentIcon the
\* desktop icon (both return a value: the lookup does not raise)
C29_AbsentNameIsSafe ==
  (/\ call.fn = "getEnvironmentStyleByName"
   /\ \A k \in 1..Len(call.collection.environments) :
        call.collection.environments[k].displayName # call.input)
    => Safe(call.out)

\* the style of a name that is absent from a collection of several entries
C29_Witness ==
  /\ call.fn = "getEnvironmentStyleByName"
  /\ Len(call.collection.environments) >= 2
  /\ \A k \in 1..Len(call.collection.environments) :
       call.collection.environments[k].displayName # call.input
  /\ Safe(call.out)


(***************************************************************************)
(* configManager.ts: from a display name back to its configuration file    *)
(***************************************************************************)
\* C30: for every descriptor of a loaded collection (one whose display names
\* are distinct), getConfigFileBase of its display name followed by '.json'
\* is its configFileName, and the path getConfigFilePath returns names that
\* same file, the one validateEnvironmentConfig looks for; for a name that no
\* descriptor carries getConfigFileBase returns undefined
C30_ResolverMapsBackToConfigFile ==
  (call.fn = "loadEnvironmentConfiguration"
   /\ DistinctNames(call.out.environments)) =>
    /\ \A k \in 1..Len(call.out.environments) :
         LET env == call.out.environments[k]
             fileBase == getConfigFileBase(call.out, env.displayName)
             path == getConfigFilePath(call.out, env.displayName)
         IN /\ fileBase.found
            /\ Append(fileBase.base, JSON) = env.configFileName
            /\ ~path.throws => path.file = env.configFileName
    /\ \A displayName \in StyleNames \ NameSet(call.out) :
         ~getConfigFileBase(call.out, displayName).found


(***************************************************************************)
(* environmentParser.ts: calls of the loader with writes of the properties *)
(* file between them, as in the test 'Load custom environment              *)
(* configuration'                                                          *)
(***************************************************************************)
\* the contents written to the properties file: the edited texts and every
\* text of one sample line
LoaderTexts == EditedTexts \cup {Join(ls) : ls \in LineSeqs(1)}

InitLoader ==
  /\ propsFile \in {NoFile, [exists |-> TRUE, readable |-> FALSE, text |-> <<>>]}
                     \cup {FileWith(text) : text \in LoaderTexts}
  /\ call = NoCall
  /\ SysIdle

\* fs.writeFileSync(propsPath, customContent) between two calls of the loader
WriteProps ==
  /\ \E text \in LoaderTexts :
       /\ propsFile # FileWith(text)
       /\ propsFile' = FileWith(text)
  /\ UNCHANGED call
  /\ UNCHANGED sysVars

NextLoader == CallLoad \/ WriteProps

SpecLoader == InitLoader /\ [][NextLoader]_vars

C33_ActiveUrlIsOfSwitchedEnvironment ==
  (CommandTransition /\ last.success /\ last.idpUrlCopied) =>
    \/ ~cursorIdpUrl.exists
    \/ /\ last.companion
       /\ cursorIdpUrl.from = getIdpUrlFilePath(LoadedNow, last.newEnv).file


(***************************************************************************)
(* Switches and ticks whose sends overlap.  The send tasks carry the token *)
(* they post and call holds the POST issued last.  The system starts as    *)
(* activation leaves it on the default properties file, with the sends of  *)
(* activation settled; the properties file and the per-environment files   *)
(* are not edited.                                                         *)
(***************************************************************************)
\* a send task of origin with the token it is going to post
TokenTask(origin, token) == [origin |-> origin, pc |-> "read", token |-> token]

\* no POST was issued yet; unsent tells whether a token was written to the
\* active file by a call of sendCredentials or switchToEnvironment that
\* issued no POST (it returned or failed before the request)
NoPost == [fn |-> "none", token |-> 0, unsent |-> FALSE]

\* the UUIDs that exist somewhere: in the active file, in a send in flight
\* and in the POST issued last
UuidsInUse ==
  LiveUuids \cup {sends[i].token : i \in 1..Len(sends)} \cup ({call.token} \ {0})

\* const uuidToSend = tokenResult.uuid || generateUUID()
uuidToSend(begin) ==
  IF begin.uuid # 0 THEN begin.uuid ELSE generateUUID(begin.used)

\* new URL(mcpIdpUrl) in the async executor of sendCredentialsToMcpServer:
\* parses tells whether the text is a URL; when it is not, the exception
\* rejects the promise of the executor itself, resolve and reject are never
\* called and the promise that sendCredentials awaits is never settled
newURL(parses) == [settles |-> parses]

InitOverlap ==
  /\ propsFile = createDefaultEnvironmentProps
  /\ call = NoPost
  /\ envFiles \in [EnvFileNames -> {"template", "plain"}]
  /\ idpUrlFiles \in SUBSET {<<"x">>, <<"y">>}
  /\ \E envConfig \in {loadEnvironmentConfiguration(propsFile)} :
     \E sw \in {switchToEnvironment(envConfig, envFiles, idpUrlFiles, AbsentMcp,
                                    AbsentUrl, <<>>, {}, <<"L">>, FALSE)} :
     \E run \in {RunSwitch(envConfig, envFiles, sw)} :
     \E started \in {startCredentialsSender(NoInterval, {}, run.idp.exists)} :
       /\ cursorMcp = run.mcp
       /\ cursorIdpUrl = run.idp
       /\ mcpCurrentEnv = run.stored
       /\ statusBarItem = updateStatusBarEnvironment(envConfig, run.stored).item
       /\ credentialsSenderInterval = started.handle
       /\ intervals = started.live
       /\ applied = run.success
  /\ phase = "active"
  /\ changePending = FALSE
  /\ quickPick = <<>>
  /\ sends = <<>>
  /\ senderLast = NoSenderEvent
  /\ last = NoTransition

\* switchEnvironment and switchToEnvironment up to the await of the send: last
\* is the transition started last, overlap telling whether the send of an
\* earlier switch was pending when it started.  The cycle is followed up to
\* the last environment, so that a run has finitely many transitions.
OverlapSwitch ==
  /\ phase = "active"
  /\ \E envConfig \in {loadEnvironmentConfiguration(propsFile)} :
     \E currentIndex \in {FindIndex(envConfig.environments, mcpCurrentEnv)} :
     /\ currentIndex + 1 < Len(envConfig.environments)
     /\ \E nextEnv \in {envConfig.environments[
                          NextIndex(currentIndex, Len(envConfig.environments)) + 1
                        ].displayName} :
        \E copyFails \in BOOLEAN :
        \E bar \in {updateStatusBarEnvironment(envConfig, nextEnv)} :
        \E sw \in {switchToEnvironment(envConfig, envFiles, idpUrlFiles, cursorMcp,
                                       cursorIdpUrl, nextEnv, UuidsInUse, nextEnv,
                                       copyFails)} :
        \E begin \in {sendCredentialsBegin(envConfig, envFiles, sw.mcp, sw.idp,
                                           sw.stored, sw.used)} :
          /\ ~bar.throws
          /\ ~sw.throws
          /\ mcpCurrentEnv' = nextEnv
          /\ statusBarItem' = bar.item
          /\ cursorMcp' = IF sw.send THEN begin.mcp ELSE sw.mcp
          /\ cursorIdpUrl' = sw.idp
          /\ sends' = IF sw.send /\ begin.pending
                        THEN Append(sends, TokenTask("switch", uuidToSend(begin)))
                        ELSE sends
          /\ Len(sends') > Len(sends) => Len(sends) < MaxInFlight
          /\ call' = [call EXCEPT !.unsent =
                        @ \/ (cursorMcp'.uuid # cursorMcp.uuid /\ sends' = sends)]
          /\ applied' = sw.success
          /\ last' = [kind |-> "cycle", accepted |-> TRUE, success |-> sw.success,
                      newEnv |-> nextEnv, overlap |-> SwitchInFlight]
  /\ propsFile' = PropsAfterLoad(propsFile)
  /\ senderLast' = NoSenderEvent
  /\ UNCHANGED <<envFiles, idpUrlFiles, phase, changePending, quickPick,
                 credentialsSenderInterval, intervals>>

\* a tick of the live interval: sendCredentials up to the read of the
\* endpoint-URL file
OverlapTick ==
  /\ \E t \in intervals :
     \E envConfig \in {loadEnvironmentConfiguration(propsFile)} :
     \E begin \in {sendCredentialsBegin(envConfig, envFiles, cursorMcp,
                                        cursorIdpUrl, mcpCurrentEnv, UuidsInUse)} :
       /\ cursorMcp' = begin.mcp
       /\ sends' = IF begin.pending
                     THEN Append(sends, TokenTask("timer", uuidToSend(begin)))
                     ELSE sends
       /\ Len(sends') > Len(sends) => Len(sends) < MaxInFlight
       /\ call' = [call EXCEPT !.unsent =
                     @ \/ (cursorMcp'.uuid # cursorMcp.uuid /\ sends' = sends)]
       /\ senderLast' = TickEvent(t = credentialsSenderInterval, ~begin.pending)
  /\ propsFile' = PropsAfterLoad(propsFile)
  /\ UNCHANGED <<envFiles, idpUrlFiles, cursorIdpUrl, mcpCurrentEnv, phase,
                 statusBarItem, changePending, quickPick,
                 credentialsSenderInterval, intervals, last, applied>>

\* the callback of fs.readFile for send number i, then sendCredentials up to
\* the request: a failed or empty read ends the call in the catch of
\* sendCredentials; a text that is not a URL leaves the call waiting for
\* ever; otherwise the POST is issued with the token of the task
OverlapReadDone(i) ==
  /\ i \in 1..Len(sends)
  /\ sends[i].pc = "read"
  /\ \E read \in ReadResults :
     \E parses \in BOOLEAN :
     \E url \in {readMcpIdpUrl(cursorIdpUrl.exists, read)} :
       /\ sends' = IF url.rejects THEN RemoveAt(sends, i)
                   ELSE IF ~newURL(parses).settles
                     THEN [sends EXCEPT ![i] = [@ EXCEPT !.pc = "waiting"]]
                   ELSE [sends EXCEPT ![i] = [@ EXCEPT !.pc = "post"]]
       /\ call' = IF url.rejects \/ ~newURL(parses).settles
                    THEN [call EXCEPT !.unsent = TRUE]
                    ELSE [call EXCEPT !.fn = "post", !.token = sends[i].token]
       /\ senderLast' = IF url.rejects THEN SettleEvent(TRUE) ELSE NoSenderEvent
  /\ UNCHANGED <<propsFile, envFiles, idpUrlFiles, cursorMcp, cursorIdpUrl,
                 mcpCurrentEnv, phase, statusBarItem, changePending, quickPick,
                 credentialsSenderInterval, intervals, last, applied>>

\* the request of send number i settles and sendCredentials ends
OverlapSettle(i) ==
  /\ i \in 1..Len(sends)
  /\ sends[i].pc = "post"
  /\ \E outcome \in RequestOutcomes :
       senderLast' = SettleEvent(sendCredentialsToMcpServer(outcome).rejects)
  /\ sends' = RemoveAt(sends, i)
  /\ UNCHANGED <<propsFile, call, envFiles, idpUrlFiles, cursorMcp, cursorIdpUrl,
                 mcpCurrentEnv, phase, statusBarItem, changePending, quickPick,
                 credentialsSenderInterval, intervals, last, applied>>

NextOverlap ==
  \/ OverlapSwitch
  \/ OverlapTick
  \/ \E i \in 1..MaxInFlight : OverlapReadDone(i)
  \/ \E i \in 1..MaxInFlight : OverlapSettle(i)

SpecOverlap == InitOverlap /\ [][NextOverlap]_vars

\* the runtime delivers every callback it owes: the end of each read and the
\* end of each request
FairSpecOverlap ==
  /\ SpecOverlap
  /\ \A i \in 1..MaxInFlight :
       WF_vars(OverlapReadDone(i)) /\ WF_vars(OverlapSettle(i))

\* C32: every switch transition eventually returns its result to the command
\* that started it (the send it awaits settles), whatever the endpoint-URL
\* file holds and however the request ends: from some point on no switch is
\* waiting for its send
C32_SwitchEventuallyReports == <>[](~SwitchInFlight)


\* C34: under every interleaving of switches, ticks and the callbacks of
\* their sends, once every send has completed and the transition started
\* last reported success, the active configuration file is the copy (the
\* placeholder replaced by a UUID when the file has one) of the file of the
\* environment named by the persisted value
C34_LastStartedSwitchIsApplied ==
  (sends = <<>> /\ last.accepted /\ last.success) =>
    /\ ~PersistedFile.throws
    /\ ActiveIsCopyOf(PersistedFile.file)

\* a switch was started while the send of an earlier switch was pending,
\* reported success, and every send has completed since
C34_Witness ==
  /\ sends = <<>>
  /\ last.accepted
  /\ last.success
  /\ last.overlap
  /\ mcpCurrentEnv = last.newEnv
  /\ ActiveIsCopyOf(PersistedFile.file)


\* C35: once every send in flight has completed, the token carried by the
\* POST issued last is the UUID in the active configuration file (for a
\* source file with the placeholder), in whatever order the callbacks of
\* overlapping sends ran; stated for the runs in which every token written
\* to the active file was followed by its POST
C35_LastPostCarriesActiveToken ==
  (/\ sends = <<>>
   /\ call.fn = "post"
   /\ ~call.unsent
   /\ cursorMcp.body = "template")
    => call.token = cursorMcp.uuid


(***************************************************************************)
(* configManager.ts, extension.ts: a display name that is not found        *)
(***************************************************************************)
\* C36: for a display name that no descriptor of the loaded collection
\* carries, the path resolvers getConfigFilePath and getIdpUrlFilePath and
\* the status-bar rendering updateStatusBarEnvironment complete without
\* raising
C36_AbsentNameNeverRaises ==
  (/\ call.fn = "resolveByName"
   /\ \A k \in 1..Len(call.collection.environments) :
        call.collection.environments[k].displayName # call.input)
    => /\ ~call.configFilePath.throws
       /\ ~call.idpUrlFilePath.throws
       /\ ~call.statusBar.throws


(***************************************************************************)
(* environmentParser.ts: the text validator and the parser agree           *)
(***************************************************************************)
\* C37: for every text that validateEnvironmentProps finds valid, the parser
\* accepts every candidate (non-blank, non-comment) line, the positions of
\* its descriptors are 0..totalCount-1 in order, display names and file names
\* are pairwise distinct, and validateEnvironmentConfig reports no error on
\* the descriptors, whichever configuration files exist
C37_ValidTextParsesCleanly ==
  (call.fn = "validateEnvironmentProps" /\ call.out.isValid) =>
    LET parsed == parseEnvironmentProps(call.input)
        envs == parsed.environments
    IN /\ parsed.totalCount = Len(CandidateLines(call.input))
       /\ parsed.totalCount = Len(envs)
       /\ \A k \in 1..Len(envs) : envs[k].position = k - 1
       /\ \A i, j \in 1..Len(envs) :
            (\/ envs[i].displayName = envs[j].displayName
             \/ envs[i].configFileName = envs[j].configFileName) => i = j
       /\ \A existing \in ExistingChoices(envs) :
            validateEnvironmentConfig(envs, existing).errors = <<>>

\* a valid text of several environments was validated
C37_Witness ==
  /\ call.fn = "validateEnvironmentProps"
  /\ call.out.isValid
  /\ Len(CandidateLines(call.input)) >= 2
  /\ parseEnvironmentProps(call.input).totalCount >= 2


(***************************************************************************)
(* configManager.ts: the per-environment configuration files               *)
(***************************************************************************)
\* C38: no step of the extension (activation, a switch, a tick, a reload,
\* a callback of a send) changes a per-environment configuration file that
\* exists, the token being written to the active file only; a file that
\* comes into being holds the default template
C38_EnvironmentFilesOnlyCreated ==
  [][\A f \in EnvFileNames :
       /\ envFiles[f] # "absent" => envFiles'[f] = envFiles[f]
       /\ envFiles[f] = "absent" => envFiles'[f] \in {"absent", "default"}]_vars

\* activation has created a missing file from the default template and has
\* put a UUID into the active copy of a file that still holds the placeholder
C38_Witness ==
  /\ last.kind = "activate"
  /\ \E f \in EnvFileNames : envFiles[f] = "default"
  /\ cursorMcp.uuid # 0
  /\ FileKind(envFiles, cursorMcp.from) = "template"


(***************************************************************************)
(* mcpSelector.ts: the commands on an empty collection                     *)
(***************************************************************************)
\* C39: when the collection that switchEnvironment or selectEnvironment
\* loads is empty, the command performs no transition: nothing is accepted
\* or aborted by an exception, no next environment is computed and no step
\* is taken, and the persisted value, the active files, the sends and the
\* quick pick are as before
C39_EmptyCollectionNoTransition ==
  [][(/\ Len(LoadedNow.environments) = 0
      /\ \/ last'.kind = "cycle"
         \/ last'.kind = "select" /\ quickPick = <<>>)
       => /\ ~last'.accepted
          /\ ~last'.aborted
          /\ last'.target = <<>>
          /\ last'.steps = <<>>
          /\ UNCHANGED <<mcpCurrentEnv, cursorMcp, cursorIdpUrl, sends,
                         quickPick, envFiles>>]_vars

\* a command has just found the collection empty while an environment is
\* persisted and applied
C39_Witness ==
  /\ last.kind \in {"cycle", "select"}
  /\ ~last.accepted
  /\ Len(LoadedNow.environments) = 0
  /\ mcpCurrentEnv # <<>>
  /\ cursorMcp.body # "absent"

====
